---- MODULE Spec2Model ----
(***************************************************************************)
(* Dependency resolution and license classification of nested_dep_check.   *)
(*                                                                         *)
(* Go strings are modelled as sequences of one-character strings, so that  *)
(* trimming, concatenation and comparison are computed, not assumed.       *)
(* Go maps are functions; ranging over a map picks the next key            *)
(* nondeterministically, as the Go runtime does.                           *)
(***************************************************************************)
EXTENDS Integers, Sequences, FiniteSets, Bags, TLC

\* ------------------------------------------------------------------ bounds

\* Total number of dependency declarations of one world: the entries of the
\* manifest plus the entries of every dependency map the registry serves.
MaxDecl == 4

\* The most requirement lines a requirements.txt holds.
MaxReqs == 2

\* The most lines a requirements.txt given to parseRequirements holds.
MaxLines == 3

\* The most nodes the two forests handed to the flattening hold together.
MaxNodes == 4

\* The most records flattenPyAll is followed for.
MaxFlat == 8

\* The number of lines of a scraped page.
MaxPage == 13

\* Package names and version strings of the bounded registry.
PkgA == <<"a">>
PkgB == <<"b">>
PkgC == <<"c">>
Pkgs == {PkgA, PkgB, PkgC}
V1 == <<"1">>
V2 == <<"2">>
Empty == <<>>

\* Raw specifiers as they are written in package.json and in the registry's
\* dependency maps.
ManifestSpecs == {V1, <<"^", "2">>}
DepSpecs == {Empty, <<"~", "2">>}

MIT == <<"M", "I", "T">>
ISC == <<"I", "S", "C">>
BSD == <<"B", "S", "D">>
GPL3 == <<"g", "p", "l", "-", "3">>
Unknown == <<"U", "n", "k", "n", "o", "w", "n">>

\* ------------------------------------------------------------------ strings

RECURSIVE TrimLeft(_, _)
\* strings.TrimLeft(s, cutset)
TrimLeft(s, cutset) ==
  IF s # <<>> /\ Head(s) \in cutset THEN TrimLeft(Tail(s), cutset) ELSE s

RECURSIVE TrimRight(_, _)
TrimRight(s, cutset) ==
  IF s # <<>> /\ s[Len(s)] \in cutset
  THEN TrimRight(SubSeq(s, 1, Len(s) - 1), cutset) ELSE s

WhiteSpace == {" ", "\t", "\r", "\n"}

\* strings.TrimSpace(s)
TrimSpace(s) == TrimRight(TrimLeft(s, WhiteSpace), WhiteSpace)

\* strings.TrimPrefix(s, prefix)
TrimPrefix(s, prefix) ==
  IF Len(s) >= Len(prefix) /\ SubSeq(s, 1, Len(prefix)) = prefix
  THEN SubSeq(s, Len(prefix) + 1, Len(s)) ELSE s

\* removeCaretTilde strips ^ or ~ from version
removeCaretTilde(ver) == TrimLeft(TrimSpace(ver), {"^", "~"})

\* strings.Contains(s, sub)
Contains(s, sub) ==
  \E i \in 0..(Len(s) - Len(sub)) : SubSeq(s, i + 1, i + Len(sub)) = sub

\* The letters and their other case.
UpMap ==
  ("a" :> "A") @@ ("b" :> "B") @@ ("c" :> "C") @@ ("d" :> "D") @@ ("e" :> "E")
  @@ ("f" :> "F") @@ ("g" :> "G") @@ ("h" :> "H") @@ ("i" :> "I") @@ ("j" :>
  "J") @@ ("k" :> "K") @@ ("l" :> "L") @@ ("m" :> "M") @@ ("n" :> "N") @@ ("o"
  :> "O") @@ ("p" :> "P") @@ ("q" :> "Q") @@ ("r" :> "R") @@ ("s" :> "S") @@
  ("t" :> "T") @@ ("u" :> "U") @@ ("v" :> "V") @@ ("w" :> "W") @@ ("x" :> "X")
  @@ ("y" :> "Y") @@ ("z" :> "Z")
LowMap ==
  ("A" :> "a") @@ ("B" :> "b") @@ ("C" :> "c") @@ ("D" :> "d") @@ ("E" :> "e")
  @@ ("F" :> "f") @@ ("G" :> "g") @@ ("H" :> "h") @@ ("I" :> "i") @@ ("J" :>
  "j") @@ ("K" :> "k") @@ ("L" :> "l") @@ ("M" :> "m") @@ ("N" :> "n") @@ ("O"
  :> "o") @@ ("P" :> "p") @@ ("Q" :> "q") @@ ("R" :> "r") @@ ("S" :> "s") @@
  ("T" :> "t") @@ ("U" :> "u") @@ ("V" :> "v") @@ ("W" :> "w") @@ ("X" :> "x")
  @@ ("Y" :> "y") @@ ("Z" :> "z")

UpChar(c) == IF c \in DOMAIN UpMap THEN UpMap[c] ELSE c
LowChar(c) == IF c \in DOMAIN LowMap THEN LowMap[c] ELSE c

RECURSIVE ToUpper(_)
\* strings.ToUpper
ToUpper(s) == IF s = <<>> THEN <<>> ELSE <<UpChar(Head(s))>> \o ToUpper(Tail(s))

RECURSIVE ToLower(_)
\* strings.ToLower
ToLower(s) == IF s = <<>> THEN <<>> ELSE <<LowChar(Head(s))>> \o ToLower(Tail(s))

\* The copyleft keywords of isCopyleft, in the order of the slice.
CopyleftKeywords == <<
  <<"G","P","L">>,
  <<"G","N","U"," ","G","E","N","E","R","A","L"," ","P","U","B","L","I","C"," ","L","I","C","E","N","S","E">>,
  <<"L","G","P","L">>,
  <<"G","N","U"," ","L","E","S","S","E","R"," ","G","E","N","E","R","A","L"," ","P","U","B","L","I","C"," ","L","I","C","E","N","S","E">>,
  <<"A","G","P","L">>,
  <<"G","N","U"," ","A","F","F","E","R","O"," ","G","E","N","E","R","A","L"," ","P","U","B","L","I","C"," ","L","I","C","E","N","S","E">>,
  <<"M","P","L">>,
  <<"M","O","Z","I","L","L","A"," ","P","U","B","L","I","C"," ","L","I","C","E","N","S","E">>,
  <<"C","C","-","B","Y","-","S","A">>,
  <<"C","R","E","A","T","I","V","E"," ","C","O","M","M","O","N","S"," ","A","T","T","R","I","B","U","T","I","O","N","-","S","H","A","R","E","A","L","I","K","E">>,
  <<"E","P","L">>,
  <<"E","C","L","I","P","S","E"," ","P","U","B","L","I","C"," ","L","I","C","E","N","S","E">>,
  <<"O","F","L">>,
  <<"O","P","E","N"," ","F","O","N","T"," ","L","I","C","E","N","S","E">>,
  <<"C","P","L">>,
  <<"C","O","M","M","O","N"," ","P","U","B","L","I","C"," ","L","I","C","E","N","S","E">>,
  <<"O","S","L">>,
  <<"O","P","E","N"," ","S","O","F","T","W","A","R","E"," ","L","I","C","E","N","S","E">> >>

\* isCopyleft that compares the license as it is written.
isCopyleft_CaseSensitive(license) ==
  \E k \in 1..Len(CopyleftKeywords) : Contains(license, CopyleftKeywords[k])

\* isCopyleft checks if a license text is likely copyleft
isCopyleft(license) ==
  \E up \in {ToUpper(license)} :
    \E k \in 1..Len(CopyleftKeywords) : Contains(up, CopyleftKeywords[k])

\* ------------------------------------------------------------------ registry

\* The shapes of a version's "license" field in the registry document: no
\* field, a string, or an object whose "type" and "name" are absent or strings.
LicAbsent == [t |-> "absent"]
LicString(s) == [t |-> "string", v |-> s]
LicObject(ty, nm) == [t |-> "object", type |-> ty, name |-> nm]
\* x.(string) succeeded with a non-empty string.
IsText(x) == x.t = "string" /\ x.v # Empty

\* One entry of the "versions" index: the license field, the "licenses" array
\* (empty when absent) and the "dependencies" map (empty when absent).
VerData(lic, arr, deps) == [license |-> lic, licenses |-> arr, deps |-> deps]

\* The versions each package publishes and the license field of each version:
\* a has an old and a latest release, b and c only the latest, c declares
\* neither a license nor dependencies.  dist-tags.latest is V2 for every
\* package.
Index(p) == IF p = PkgA THEN {V1, V2} ELSE {V2}
LicField(p, v) ==
  IF p = PkgC THEN LicAbsent
  ELSE IF v = V1 THEN LicString(MIT)
  ELSE IF p = PkgA THEN LicString(GPL3)
  ELSE LicObject(LicAbsent, LicString(ISC))

\* The dependency maps p can declare, with at most n entries.
DepMaps(p, n) ==
  IF p = PkgC THEN {<<>>}
  ELSE UNION {[S -> DepSpecs] : S \in {T \in SUBSET Pkgs : Cardinality(T) <= n}}

\* http.Get failed: no response at all.
NetErr ==
  [err |-> TRUE, status |-> 0, json |-> FALSE, tags |-> FALSE,
   latest |-> Empty, hasVersions |-> FALSE, versions |-> <<>>]
\* 404 with the registry's JSON error body: no dist-tags, no versions.
NotFound ==
  [err |-> FALSE, status |-> 404, json |-> TRUE, tags |-> FALSE,
   latest |-> Empty, hasVersions |-> FALSE, versions |-> <<>>]
\* A body that is not JSON.
BadBody ==
  [err |-> FALSE, status |-> 200, json |-> FALSE, tags |-> FALSE,
   latest |-> Empty, hasVersions |-> FALSE, versions |-> <<>>]
\* 200 with the package document; only the latest release declares
\* dependencies.
OkResponse(p, d) ==
  [err |-> FALSE, status |-> 200, json |-> TRUE, tags |-> TRUE,
   latest |-> V2, hasVersions |-> TRUE,
   versions |-> [v \in Index(p) |->
                   VerData(LicField(p, v), <<>>, IF v = V2 THEN d ELSE <<>>)]]

Responses(p, n) == {NetErr, NotFound, BadBody} \cup {OkResponse(p, d) : d \in DepMaps(p, n)}

\* What the page scrape can return: nothing, or a token.
PageResults == {Empty, BSD}

\* ------------------------------------------------------------------ licenses

\* findNpmLicense without its last strategy, the "licenses" array.
findNpmLicense_NoLicensesArray(verData) ==
  LET l == verData.license
  IN IF IsText(l) THEN l.v
     ELSE IF l.t = "object" /\ IsText(l.type) THEN l.type.v
     ELSE IF l.t = "object" /\ IsText(l.name) THEN l.name.v
     ELSE Unknown

\* findNpmLicense that looks at the name of a license object before its type.
findNpmLicense_NameBeforeType(verData) ==
  LET l == verData.license
      arr == verData.licenses
  IN IF IsText(l) THEN l.v
     ELSE IF l.t = "object" /\ IsText(l.name) THEN l.name.v
     ELSE IF l.t = "object" /\ IsText(l.type) THEN l.type.v
     ELSE IF Len(arr) > 0 /\ arr[1].t = "object" /\ IsText(arr[1].type) THEN arr[1].type.v
     ELSE IF Len(arr) > 0 /\ arr[1].t = "object" /\ IsText(arr[1].name) THEN arr[1].name.v
     ELSE Unknown

\* findNpmLicense
findNpmLicense(verData) ==
  LET l == verData.license
      arr == verData.licenses
  IN IF IsText(l) THEN l.v
     ELSE IF l.t = "object" /\ IsText(l.type) THEN l.type.v
     ELSE IF l.t = "object" /\ IsText(l.name) THEN l.name.v
     ELSE IF Len(arr) > 0 /\ arr[1].t = "object" /\ IsText(arr[1].type) THEN arr[1].type.v
     ELSE IF Len(arr) > 0 /\ arr[1].t = "object" /\ IsText(arr[1].name) THEN arr[1].name.v
     ELSE Unknown

\* The license lookup written inline in the resolveNodeDependency that has
\* no findNpmLicense: a string or an object's "type" is taken as it is.
resolveNodeDependencyInline(verData) ==
  LET l == verData.license
  IN IF l.t = "string" THEN l.v
     ELSE IF l.t = "object" /\ l.type.t = "string" THEN l.type.v
     ELSE Unknown

\* ------------------------------------------------------------------ Node.js

VARIABLES
  variant,    \* which snapshot of the resolver runs
  manifest,   \* package.json: "ok" with its dependencies map, or why it fails
  registry,   \* the registry's answer per package, fixed at the first fetch
  visited,    \* the visited map of parseNodeDependencies
  fetches,    \* history: how often each key's registry document was requested
  pages,      \* what the scrape of a package's page gives, fixed at the first scrape
  stack,      \* the active calls of resolveNodeDependency, innermost last
  topTodo,    \* manifest entries the range loop has not reached yet
  out,        \* the result slice of parseNodeDependencies
  pcN,        \* "parse", "range", "done"
  retErr      \* parseNodeDependencies returned an error

nodeVars == <<variant, manifest, registry, visited, fetches, pages, stack, topTodo,
             out, pcN, retErr>>

VARIABLES
  pyVariant,  \* which snapshot of the Python resolver runs
  reqFile,    \* requirements.txt: readable with its requirements, or not
  pypi,       \* PyPI's answer per package, fixed at the first fetch
  wpc,        \* per worker goroutine: where it is
  wstack,     \* per worker: the active calls of resolvePythonDependency
  wvisited,   \* per worker: the visited map its call was given
  wmap,       \* per worker: the address of that map, 0 before it is made
  wres,       \* per worker: what resolvePythonDependency returned
  wg,         \* the WaitGroup counter
  nextW,      \* the next requirement the spawning loop reaches
  pcM,        \* parsePythonDependencies: "open", "spawn", "rangeDep", "rangeErr", "returned"
  pcC,        \* the closer goroutine: "none", "wait", "closeErr", "done"
  depClosed,  \* close(depChan) happened
  errClosed,  \* close(errChan) happened
  results,    \* the result slice of parsePythonDependencies
  errLog,     \* the errors the draining loop logged
  pyErr       \* parsePythonDependencies returned an error

pyVars == <<pyVariant, reqFile, pypi, wpc, wstack, wvisited, wmap, wres, wg, nextW,
            pcM, pcC, depClosed, errClosed, results, errLog, pyErr>>

\* No requirements.txt is being parsed.
PyIdle ==
  /\ pyVariant = "none"
  /\ reqFile = [kind |-> "unreadable", reqs |-> <<>>]
  /\ pypi = <<>>
  /\ wpc = [w \in 1..MaxReqs |-> "none"]
  /\ wstack = [w \in 1..MaxReqs |-> <<>>]
  /\ wvisited = [w \in 1..MaxReqs |-> {}]
  /\ wmap = [w \in 1..MaxReqs |-> 0]
  /\ wres = [w \in 1..MaxReqs |-> [kind |-> "none"]]
  /\ wg = 0
  /\ nextW = 1
  /\ pcM = "returned"
  /\ pcC = "none"
  /\ depClosed = FALSE
  /\ errClosed = FALSE
  /\ results = <<>>
  /\ errLog = <<>>
  /\ pyErr = FALSE

VARIABLES
  licIn,       \* the inputs of one license inference: the snapshot, whether
               \* versions[ver] exists, its metadata, what the page scrape gives
  licPc,       \* "idle", "lookup", "fallback", "done"
  licVal,      \* the local variable license of resolveNodeDependency
  pageFetched, \* fallbackNpmLicenseByCurl was called
  licNode      \* the node that was returned, <<>> before

licVars == <<licIn, licPc, licVal, pageFetched, licNode>>

\* No license is being inferred.
LicIdle ==
  /\ licIn = <<>>
  /\ licPc = "idle"
  /\ licVal = Empty
  /\ pageFetched = FALSE
  /\ licNode = <<>>

VARIABLES
  prIn,    \* the reader parseRequirements is given: its content, or a read error
  prLines, \* the lines the loop of parseRequirements has not reached yet
  prOut,   \* the slice out of parseRequirements
  prLog,   \* the lines logged as invalid
  prPc     \* "idle", "read", "loop", "done", "failed"

prVars == <<prIn, prLines, prOut, prLog, prPc>>

\* parseRequirements is not running.
PrIdle ==
  /\ prIn = <<>>
  /\ prLines = <<>>
  /\ prOut = <<>>
  /\ prLog = <<>>
  /\ prPc = "idle"

VARIABLES
  program,  \* which snapshot's main and buildTreeJSON run
  mainPc,   \* main: "idle", "node", "nodeWait", "python", "pythonWait",
            \* "flatten", "tree", "html", "exited"
  nodeDeps, \* the local nodeDeps of main
  pyDeps,   \* the local pyDeps of main
  allFlat,  \* the local allFlat of main
  njson,    \* the Node.js tree document
  pjson,    \* the Python tree document
  report,   \* the data dependency-license-report.html was written from, <<>> when none
  exitCode  \* the exit status of the process, -1 while it runs

mainVars == <<program, mainPc, nodeDeps, pyDeps, allFlat, njson, pjson, report, exitCode>>

\* main is not running.
MainIdle ==
  /\ program = "none"
  /\ mainPc = "idle"
  /\ nodeDeps = <<>>
  /\ pyDeps = <<>>
  /\ allFlat = <<>>
  /\ njson = <<>>
  /\ pjson = <<>>
  /\ report = <<>>
  /\ exitCode = -1

VARIABLES
  pipIn,      \* what "pipdeptree --json-tree" gives: its top nodes, or an error
  heap,       \* the PythonDependency structs buildPyDepTree allocated, by address
  btStack,    \* the active calls of buildPyDepTree, innermost last
  btCache,    \* the cache map: upper-cased key to the address of its struct
  btVisited,  \* the visited map of parsePythonDependencies
  btTodo,     \* the top nodes the range loop has not reached yet
  pipResults, \* the result slice of parsePythonDependencies, as addresses
  flStack,    \* the active calls of flattenPyAll, innermost last
  flOut,      \* the records flattenPyAll has appended so far
  pipPc       \* "idle", "run", "range", "flatten", "done", "failed"

pipVars == <<pipIn, heap, btStack, btCache, btVisited, btTodo, pipResults,
             flStack, flOut, pipPc>>

\* pipdeptree is not being read.
PipIdle ==
  /\ pipIn = <<>>
  /\ heap = <<>>
  /\ btStack = <<>>
  /\ btCache = <<>>
  /\ btVisited = {}
  /\ btTodo = <<>>
  /\ pipResults = <<>>
  /\ flStack = <<>>
  /\ flOut = <<>>
  /\ pipPc = "idle"

VARIABLES
  scIn,   \* one page scrape: the snapshot, whether the page came, its lines
  scOut,  \* what the scrape returned
  scPc    \* "idle", "call", "done"

scVars == <<scIn, scOut, scPc>>

\* No page is being scraped.
ScIdle ==
  /\ scIn = <<>>
  /\ scOut = <<>>
  /\ scPc = "idle"

restVars == <<licVars, prVars, mainVars, pipVars, scVars>>
RestIdle == LicIdle /\ PrIdle /\ MainIdle /\ PipIdle /\ ScIdle
\* What the license inference, parseRequirements and the steps of main
\* between its calls leave alone.
licRest == <<nodeVars, pyVars, prVars, mainVars, pipVars, scVars>>
prRest == <<nodeVars, pyVars, licVars, mainVars, pipVars, scVars>>
mainRest == <<licVars, prVars, pipVars, scVars>>
pipRest == <<nodeVars, pyVars, licVars, prVars, mainVars, scVars>>
scRest == <<nodeVars, pyVars, licVars, prVars, mainVars, pipVars>>

\* The visited key of a package at a specifier.
NodeKey(pkg, ver) == pkg \o <<"@">> \o ver

\* The NodeDependency struct (Req records the specifier the node was
\* requested with; it is history, not a field of the struct).
NodeDependency(pkg, ver, license, trans, req) ==
  [Name |-> pkg, Version |-> ver, License |-> license,
   Details |-> <<"https://www.npmjs.com/package/">> \o pkg,
   Copyleft |-> isCopyleft(license), Transitive |-> trans,
   Language |-> "node", Req |-> req]

\* The locals of one call of resolveNodeDependency that is in its loop.
Frame(pkg, ver, req, license, deps) ==
  [pkg |-> pkg, ver |-> ver, req |-> req, license |-> license,
   deps |-> deps, todo |-> DOMAIN deps, trans |-> <<>>]

\* resolveNodeDependency with the visited mark taken after ver was replaced
\* by the latest version: the key that is marked is not the key checked.
resolveNodeDependency_MarkResolved(pkg, ver, resp, vis) ==
  LET key == NodeKey(pkg, ver) IN
  IF key \in vis THEN [kind |-> "nil", fetched |-> FALSE, visited |-> vis]
  ELSE IF resp.err \/ ~resp.json
  THEN [kind |-> "err", fetched |-> TRUE, visited |-> vis \cup {key}]
  ELSE
    LET ver2 == IF ver = Empty /\ resp.tags THEN resp.latest ELSE ver
        found == resp.hasVersions /\ ver2 \in DOMAIN resp.versions
    IN [kind |-> "frame", fetched |-> TRUE,
        visited |-> vis \cup {NodeKey(pkg, ver2)},
        frame |-> Frame(pkg, ver2, ver,
                        IF found THEN findNpmLicense(resp.versions[ver2]) ELSE Unknown,
                        IF found THEN resp.versions[ver2].deps ELSE <<>>)]

\* resolveNodeDependency with a visited map that is keyed by the package name
\* alone.
resolveNodeDependency_KeyByName(pkg, ver, resp, vis) ==
  LET key == pkg IN
  IF key \in vis THEN [kind |-> "nil", fetched |-> FALSE, visited |-> vis]
  ELSE IF resp.err \/ ~resp.json
  THEN [kind |-> "err", fetched |-> TRUE, visited |-> vis \cup {key}]
  ELSE
    LET ver2 == IF ver = Empty /\ resp.tags THEN resp.latest ELSE ver
        found == resp.hasVersions /\ ver2 \in DOMAIN resp.versions
    IN [kind |-> "frame", fetched |-> TRUE, visited |-> vis \cup {key},
        frame |-> Frame(pkg, ver2, ver,
                        IF found THEN findNpmLicense(resp.versions[ver2]) ELSE Unknown,
                        IF found THEN resp.versions[ver2].deps ELSE <<>>)]

\* resolveNodeDependency with the visited mark taken after the document was
\* fetched and decoded: a key whose fetch failed stays unmarked.
resolveNodeDependency_MarkOnSuccess(pkg, ver, resp, vis) ==
  LET key == NodeKey(pkg, ver) IN
  IF key \in vis THEN [kind |-> "nil", fetched |-> FALSE, visited |-> vis]
  ELSE IF resp.err \/ ~resp.json
  THEN [kind |-> "err", fetched |-> TRUE, visited |-> vis]
  ELSE
    LET ver2 == IF ver = Empty /\ resp.tags THEN resp.latest ELSE ver
        found == resp.hasVersions /\ ver2 \in DOMAIN resp.versions
    IN [kind |-> "frame", fetched |-> TRUE, visited |-> vis \cup {key},
        frame |-> Frame(pkg, ver2, ver,
                        IF found THEN findNpmLicense(resp.versions[ver2]) ELSE Unknown,
                        IF found THEN resp.versions[ver2].deps ELSE <<>>)]

\* resolveNodeDependency of checker.go up to its loop: the visited check and
\* mark, the fetch, the decode, the choice of the version and its metadata.
resolveNodeDependency(pkg, ver, resp, vis) ==
  LET key == NodeKey(pkg, ver) IN
  IF key \in vis THEN [kind |-> "nil", fetched |-> FALSE, visited |-> vis]
  ELSE IF resp.err \/ ~resp.json
  THEN [kind |-> "err", fetched |-> TRUE, visited |-> vis \cup {key}]
  ELSE
    LET ver2 == IF ver = Empty /\ resp.tags THEN resp.latest ELSE ver
        found == resp.hasVersions /\ ver2 \in DOMAIN resp.versions
    IN [kind |-> "frame", fetched |-> TRUE, visited |-> vis \cup {key},
        frame |-> Frame(pkg, ver2, ver,
                        IF found THEN findNpmLicense(resp.versions[ver2]) ELSE Unknown,
                        IF found THEN resp.versions[ver2].deps ELSE <<>>)]

\* resolveNodeDependency of checker.go's last snapshot up to its loop: as the
\* first one, with the license lookup written inline.
resolveNodeDependencyLast(pkg, ver, resp, vis) ==
  LET key == NodeKey(pkg, ver) IN
  IF key \in vis THEN [kind |-> "nil", fetched |-> FALSE, visited |-> vis]
  ELSE IF resp.err \/ ~resp.json
  THEN [kind |-> "err", fetched |-> TRUE, visited |-> vis \cup {key}]
  ELSE
    LET ver2 == IF ver = Empty /\ resp.tags THEN resp.latest ELSE ver
        found == resp.hasVersions /\ ver2 \in DOMAIN resp.versions
    IN [kind |-> "frame", fetched |-> TRUE, visited |-> vis \cup {key},
        frame |-> Frame(pkg, ver2, ver,
                        IF found THEN resolveNodeDependencyInline(resp.versions[ver2])
                        ELSE Unknown,
                        IF found THEN resp.versions[ver2].deps ELSE <<>>)]

\* The fallback that takes the latest version's metadata and keeps the
\* requested version as the node's label.
resolveNodeDependencyFallback_KeepLabel(pkg, ver, resp, vis) ==
  LET key == NodeKey(pkg, ver) IN
  IF key \in vis THEN [kind |-> "nil", fetched |-> FALSE, visited |-> vis]
  ELSE IF resp.err \/ ~resp.json
  THEN [kind |-> "err", fetched |-> TRUE, visited |-> vis \cup {key}]
  ELSE IF ~resp.hasVersions
  THEN [kind |-> "nil", fetched |-> TRUE, visited |-> vis \cup {key}]
  ELSE
    LET ver2 == IF ver = Empty /\ resp.tags THEN resp.latest ELSE ver
        exact == ver2 \in DOMAIN resp.versions
        fall == ~exact /\ resp.tags /\ resp.latest \in DOMAIN resp.versions
        ver3 == IF fall THEN resp.latest ELSE ver2
        found == exact \/ fall
    IN [kind |-> "frame", fetched |-> TRUE, visited |-> vis \cup {key},
        frame |-> Frame(pkg, ver2, ver,
                        IF found THEN findNpmLicense(resp.versions[ver3]) ELSE Unknown,
                        IF found THEN resp.versions[ver3].deps ELSE <<>>)]

\* resolveNodeDependency of the snapshot that falls back to dist-tags.latest.
resolveNodeDependencyFallback(pkg, ver, resp, vis) ==
  LET key == NodeKey(pkg, ver) IN
  IF key \in vis THEN [kind |-> "nil", fetched |-> FALSE, visited |-> vis]
  ELSE IF resp.err \/ ~resp.json
  THEN [kind |-> "err", fetched |-> TRUE, visited |-> vis \cup {key}]
  ELSE IF ~resp.hasVersions
  THEN [kind |-> "nil", fetched |-> TRUE, visited |-> vis \cup {key}]
  ELSE
    LET ver2 == IF ver = Empty /\ resp.tags THEN resp.latest ELSE ver
        exact == ver2 \in DOMAIN resp.versions
        fall == ~exact /\ resp.tags /\ resp.latest \in DOMAIN resp.versions
        ver3 == IF fall THEN resp.latest ELSE ver2
        found == exact \/ fall
    IN [kind |-> "frame", fetched |-> TRUE, visited |-> vis \cup {key},
        frame |-> Frame(pkg, ver3, ver,
                        IF found THEN findNpmLicense(resp.versions[ver3]) ELSE Unknown,
                        IF found THEN resp.versions[ver3].deps ELSE <<>>)]

\* The tail of resolveNodeDependency: the page-scrape fallback for an Unknown
\* license, and the node that is returned.
NodeResult(f, page) ==
  LET license == IF f.license = Unknown /\ page # Empty THEN page ELSE f.license
  IN NodeDependency(f.pkg, f.ver, license, f.trans, f.req)

\* The package.json files: readable with a dependencies map, unreadable (or
\* not JSON), or without a "dependencies" object.
Manifests ==
  {[kind |-> "ok", deps |-> d] :
     d \in UNION {[S -> ManifestSpecs] :
                    S \in {T \in SUBSET Pkgs : Cardinality(T) <= MaxDecl}}}
  \cup {[kind |-> "unreadable", deps |-> <<>>], [kind |-> "nodeps", deps |-> <<>>]}

\* The declarations made so far: manifest entries and served dependency maps.
RECURSIVE ServedDecls(_)
ServedDecls(ps) ==
  IF ps = {} THEN 0
  ELSE LET p == CHOOSE q \in ps : TRUE
       IN (IF registry[p].hasVersions
           THEN Cardinality(DOMAIN registry[p].versions[V2].deps) ELSE 0)
          + ServedDecls(ps \ {p})
Decls == Cardinality(DOMAIN manifest.deps) + ServedDecls(DOMAIN registry)

\* The answers the registry can give to the fetch of pkg: the one it gave
\* before, or any answer that keeps the world within MaxDecl declarations.
\* No fetch is made for a visited key.
Answers(pkg, ver) ==
  IF NodeKey(pkg, ver) \in visited THEN {NetErr}
  ELSE IF pkg \in DOMAIN registry THEN {registry[pkg]}
  ELSE Responses(pkg, MaxDecl - Decls)

\* The snapshot's resolveNodeDependency.
Resolve(pkg, ver, resp, vis) ==
  IF variant = "checker" THEN resolveNodeDependency(pkg, ver, resp, vis)
  ELSE IF variant = "inline" THEN resolveNodeDependencyLast(pkg, ver, resp, vis)
  ELSE resolveNodeDependencyFallback(pkg, ver, resp, vis)

\* The version argument of a call of resolveNodeDependency for the declared
\* specifier raw, at the call site of parseNodeDependencies (top) or at the
\* one in the loop of resolveNodeDependency.
CallSpecifier(raw, top) ==
  IF variant = "inline"
  THEN IF top THEN TrimPrefix(raw, <<"^">>) ELSE raw
  ELSE removeCaretTilde(raw)

\* A call whose error makes the calling resolveNodeDependency return the
\* error too, instead of skipping the dependency.
Call_AbortCaller(nm, raw, base) ==
  LET ver == CallSpecifier(raw, base = <<>>) IN
  \E resp \in Answers(nm, ver) :
    LET r == Resolve(nm, ver, resp, visited) IN
    /\ visited' = r.visited
    /\ registry' = IF r.fetched /\ nm \notin DOMAIN registry
                   THEN registry @@ (nm :> resp) ELSE registry
    /\ fetches' = IF r.fetched THEN fetches (+) SetToBag({NodeKey(nm, ver)})
                  ELSE fetches
    /\ stack' = IF r.kind = "frame" THEN Append(base, r.frame)
                ELSE IF r.kind = "err" THEN SubSeq(base, 1, Len(base) - 1)
                ELSE base

\* A call resolveNodeDependency(nm, removeCaretTilde(raw), visited) made with
\* the callers' frames base: it returns at once (nil) or enters its loop.
Call(nm, raw, base) ==
  LET ver == CallSpecifier(raw, base = <<>>) IN
  \E resp \in Answers(nm, ver) :
    LET r == Resolve(nm, ver, resp, visited) IN
    /\ visited' = r.visited
    /\ registry' = IF r.fetched /\ nm \notin DOMAIN registry
                   THEN registry @@ (nm :> resp) ELSE registry
    /\ fetches' = IF r.fetched THEN fetches (+) SetToBag({NodeKey(nm, ver)})
                  ELSE fetches
    /\ stack' = IF r.kind = "frame" THEN Append(base, r.frame) ELSE base

Top == stack[Len(stack)]

\* The call with the locals f scrapes the package page: its license is
\* Unknown and the snapshot has the page fallback.
ScrapesPage(f) == f.license = Unknown /\ variant # "inline"

\* What the scrape gives the call: the page's answer, the one it gave
\* before when the page of the package was scraped before.
Scrapes(f) ==
  IF ~ScrapesPage(f) THEN {Empty}
  ELSE IF f.pkg \in DOMAIN pages THEN {pages[f.pkg]}
  ELSE PageResults

\* parseNodeDependencies: read and decode package.json.
NodeParse ==
  /\ pcN = "parse"
  /\ IF manifest.kind = "ok"
     THEN pcN' = "range" /\ topTodo' = DOMAIN manifest.deps /\ retErr' = FALSE
     ELSE pcN' = "done" /\ topTodo' = {} /\ retErr' = TRUE
  /\ UNCHANGED <<variant, manifest, registry, visited, fetches, pages, stack, out>>
  /\ UNCHANGED <<pyVars, restVars>>

\* parseNodeDependencies: the next iteration of "for nm,vr:=range deps".
NodeTop ==
  /\ pcN = "range" /\ stack = <<>>
  /\ \E nm \in topTodo :
       /\ Call(nm, manifest.deps[nm], <<>>)
       /\ topTodo' = topTodo \ {nm}
  /\ UNCHANGED <<variant, manifest, pages, out, pcN, retErr>>
  /\ UNCHANGED <<pyVars, restVars>>

\* resolveNodeDependency: the next iteration of "for dname,dver:=range deps".
NodeChild ==
  /\ pcN = "range" /\ stack # <<>> /\ Top.todo # {}
  /\ \E d \in Top.todo :
       Call(d, Top.deps[d],
            [stack EXCEPT ![Len(stack)].todo = Top.todo \ {d}])
  /\ UNCHANGED <<variant, manifest, pages, topTodo, out, pcN, retErr>>
  /\ UNCHANGED <<pyVars, restVars>>

\* resolveNodeDependency: the loop is over; fall back to the page scrape for
\* an Unknown license, return the node, and the caller appends it.
NodeReturn ==
  /\ pcN = "range" /\ stack # <<>> /\ Top.todo = {}
  /\ \E page \in Scrapes(Top) :
       LET nd == NodeResult(Top, page) IN
       /\ pages' = IF ScrapesPage(Top) /\ Top.pkg \notin DOMAIN pages
                   THEN pages @@ (Top.pkg :> page) ELSE pages
       /\ IF Len(stack) = 1
          THEN /\ out' = Append(out, nd)
               /\ stack' = <<>>
          ELSE /\ out' = out
               /\ stack' = [SubSeq(stack, 1, Len(stack) - 1)
                              EXCEPT ![Len(stack) - 1].trans = Append(@, nd)]
  /\ UNCHANGED <<variant, manifest, registry, visited, fetches, topTodo, pcN, retErr>>
  /\ UNCHANGED <<pyVars, restVars>>

\* parseNodeDependencies: return out, nil.
NodeFinish ==
  /\ pcN = "range" /\ stack = <<>> /\ topTodo = {}
  /\ pcN' = "done"
  /\ UNCHANGED <<variant, manifest, registry, visited, fetches, pages, stack, topTodo,
                 out, retErr>>
  /\ UNCHANGED <<pyVars, restVars>>

NodeInit(v) ==
  /\ variant = v
  /\ manifest \in Manifests
  /\ registry = <<>>
  /\ visited = {}
  /\ fetches = EmptyBag
  /\ pages = <<>>
  /\ stack = <<>>
  /\ topTodo = {}
  /\ out = <<>>
  /\ pcN = "parse"
  /\ retErr = FALSE
  /\ PyIdle
  /\ RestIdle

NodeNext == NodeParse \/ NodeTop \/ NodeChild \/ NodeReturn \/ NodeFinish

\* ------------------------------------------------------------------ Python

\* strings.Index(s, c) for a one-character c, 0-based, -1 when absent.
Index1(s, c) ==
  IF \E i \in 1..Len(s) : s[i] = c
  THEN (CHOOSE i \in 1..Len(s) : s[i] = c /\ \A j \in 1..(i - 1) : s[j] # c) - 1
  ELSE -1

\* parseDistRequirement: "requests (>=2.5)" gives the name and the constraint.
parseDistRequirement(line0) ==
  LET line == TrimSpace(line0)
      i == Index1(line, " ")
  IN IF i < 0 THEN <<line, Empty>>
     ELSE <<SubSeq(line, 1, i),
            TrimRight(TrimLeft(TrimSpace(SubSeq(line, i + 1, Len(line))),
                               {"(", ")"}), {"(", ")"})>>

\* The requirement struct.
Requirement(nm, vr) == [name |-> nm, version |-> vr]

\* The requirements a requirements.txt can hold.
ReqChoices == {Requirement(n, v) : n \in Pkgs, v \in {V1, Empty}}
RECURSIVE SeqsUpTo(_, _)
SeqsUpTo(S, n) ==
  IF n = 0 THEN {<<>>}
  ELSE SeqsUpTo(S, n - 1) \cup
       {Append(q, x) : q \in {r \in SeqsUpTo(S, n - 1) : Len(r) = n - 1}, x \in S}
ReqFiles ==
  {[kind |-> "ok", reqs |-> q] : q \in SeqsUpTo(ReqChoices, MaxReqs)}
  \cup {[kind |-> "unreadable", reqs |-> <<>>]}

\* The requires_dist lines of the bounded PyPI.
LineB == <<"b">>
LineC == <<"c", " ", "(", ">", "=", "2", ")">>

\* The requires_dist arrays p can publish: a may list b and c, b may list c,
\* c lists nothing.  The snapshot of checker.go never reads requires_dist, so
\* none is drawn for it.
DistChoices(p) ==
  IF pyVariant = "checker" \/ p = PkgC THEN {<<>>}
  ELSE IF p = PkgB THEN {<<>>, <<LineC>>}
  ELSE {<<>>, <<LineC>>, <<LineB>>, <<LineB, LineC>>, <<LineC, LineB>>}

\* info.license of each package: c declares none.
PyLicense(p) == IF p = PkgA THEN GPL3 ELSE IF p = PkgB THEN MIT ELSE Empty

\* http.Get failed.
PyNetErr ==
  [err |-> TRUE, status |-> 0, json |-> FALSE, hasInfo |-> FALSE,
   version |-> Empty, license |-> Empty, dist |-> <<>>]
\* A status other than 200.
PyNotFound ==
  [err |-> FALSE, status |-> 404, json |-> TRUE, hasInfo |-> FALSE,
   version |-> Empty, license |-> Empty, dist |-> <<>>]
\* 200 with a body that is not JSON.
PyBadBody ==
  [err |-> FALSE, status |-> 200, json |-> FALSE, hasInfo |-> FALSE,
   version |-> Empty, license |-> Empty, dist |-> <<>>]
\* 200 with a document without "info".
PyNoInfo ==
  [err |-> FALSE, status |-> 200, json |-> TRUE, hasInfo |-> FALSE,
   version |-> Empty, license |-> Empty, dist |-> <<>>]
\* 200 with the document of the package: info is the latest release's.
PyOk(p, d) ==
  [err |-> FALSE, status |-> 200, json |-> TRUE, hasInfo |-> TRUE,
   version |-> V2, license |-> PyLicense(p), dist |-> d]

PyResponses(p) ==
  {PyNetErr, PyNotFound, PyBadBody, PyNoInfo} \cup {PyOk(p, d) : d \in DistChoices(p)}

\* The PythonDependency struct (Req as in NodeDependency).
PythonDependency(pkg, ver, license, details, trans, req) ==
  [Name |-> pkg, Version |-> ver, License |-> license,
   Details |-> details, Copyleft |-> isCopyleft(license),
   Transitive |-> trans, Language |-> "python", Req |-> req]

\* The locals of one call of resolvePythonDependency that is in its loop.
PyFrame(pkg, ver, req, license, dist) ==
  [pkg |-> pkg, ver |-> ver, req |-> req, license |-> license,
   dist |-> dist, trans |-> <<>>]

\* resolvePythonDependency of checker.go: it resolves no requires_dist.
resolvePythonDependency(pkg, ver, resp, page, vis) ==
  LET key == NodeKey(pkg, ver) IN
  IF key \in vis THEN [kind |-> "nil", fetched |-> FALSE, visited |-> vis]
  ELSE IF resp.err \/ resp.status # 200 \/ ~resp.json \/ ~resp.hasInfo
  THEN [kind |-> "err", fetched |-> TRUE, visited |-> vis \cup {key}]
  ELSE [kind |-> "frame", fetched |-> TRUE, visited |-> vis \cup {key},
        frame |-> PyFrame(pkg, IF ver = Empty THEN resp.version ELSE ver, ver,
                          IF resp.license # Empty THEN resp.license ELSE Unknown,
                          <<>>)]

\* resolvePythonDependency of the snapshot that scrapes the project page for
\* an Unknown license and resolves requires_dist, up to its loop.
resolvePythonDependencyTransitive(pkg, ver, resp, page, vis) ==
  LET key == NodeKey(pkg, ver) IN
  IF key \in vis THEN [kind |-> "nil", fetched |-> FALSE, visited |-> vis]
  ELSE IF resp.err \/ resp.status # 200 \/ ~resp.json \/ ~resp.hasInfo
  THEN [kind |-> "err", fetched |-> TRUE, visited |-> vis \cup {key}]
  ELSE [kind |-> "frame", fetched |-> TRUE, visited |-> vis \cup {key},
        frame |-> PyFrame(pkg, IF ver = Empty THEN resp.version ELSE ver, ver,
                          IF resp.license # Empty THEN resp.license
                          ELSE IF page # Empty THEN page ELSE Unknown,
                          resp.dist)]

PyResolve(pkg, ver, resp, page, vis) ==
  IF pyVariant = "checker" THEN resolvePythonDependency(pkg, ver, resp, page, vis)
  ELSE resolvePythonDependencyTransitive(pkg, ver, resp, page, vis)

\* The Details link of the snapshot.
PyDetails(pkg) ==
  IF pyVariant = "checker" THEN <<"https://pypi.org/pypi/">> \o pkg \o <<"/json">>
  ELSE <<"https://pypi.org/project/">> \o pkg

\* The node a call returns when its loop is over.
PyResult(f) == PythonDependency(f.pkg, f.ver, f.license, PyDetails(f.pkg), f.trans, f.req)

\* The answers PyPI can give to worker w's fetch of pkg: the one it gave
\* before, or any answer.  No fetch is made for a key w has visited.
PyAnswers(w, pkg, ver) ==
  IF NodeKey(pkg, ver) \in wvisited[w] THEN {PyNetErr}
  ELSE IF pkg \in DOMAIN pypi THEN {pypi[pkg]}
  ELSE PyResponses(pkg)

\* What fallbackPyPiLicense can return for a call: it is made only by the
\* snapshot that scrapes, and only when info carries no license.
PyPages(resp) ==
  IF pyVariant = "transitive" /\ resp.hasInfo /\ resp.license = Empty
  THEN PageResults ELSE {Empty}

WTop(w) == wstack[w][Len(wstack[w])]

\* The address of the map a composite literal map[string]bool{} makes: one
\* that no map made before has.
NewMap ==
  CHOOSE a \in 1..MaxReqs :
    /\ \A v \in 1..MaxReqs : wmap[v] # a
    /\ \A b \in 1..(a - 1) : \E v \in 1..MaxReqs : wmap[v] = b

\* Worker w calls resolvePythonDependency(nm, ver, visited) with the callers'
\* frames base: the call returns at once (nil or an error) or enters its loop.
\* The outermost call's nil or error is the goroutine's dp, e.
PyCall(w, nm, ver, base) ==
  \E resp \in PyAnswers(w, nm, ver) : \E page \in PyPages(resp) :
    LET r == PyResolve(nm, ver, resp, page, wvisited[w])
        over == base = <<>> /\ r.kind # "frame"
    IN /\ wvisited' = [wvisited EXCEPT ![w] = r.visited]
       /\ pypi' = IF r.fetched /\ nm \notin DOMAIN pypi
                  THEN pypi @@ (nm :> resp) ELSE pypi
       /\ wstack' = [wstack EXCEPT ![w] = IF r.kind = "frame"
                                           THEN Append(base, r.frame) ELSE base]
       /\ wres' = IF over THEN [wres EXCEPT ![w] = [kind |-> r.kind]] ELSE wres
       /\ wpc' = [wpc EXCEPT ![w] = IF over THEN "send" ELSE "run"]

\* parsePythonDependencies: open requirements.txt and parse it.
PyOpen ==
  /\ pcM = "open"
  /\ IF reqFile.kind = "ok"
     THEN pcM' = "spawn" /\ pyErr' = FALSE
     ELSE pcM' = "returned" /\ pyErr' = TRUE
  /\ UNCHANGED <<pyVariant, reqFile, pypi, wpc, wstack, wvisited, wmap, wres, wg,
                 nextW, pcC, depClosed, errClosed, results, errLog>>
  /\ UNCHANGED <<nodeVars, restVars>>

\* parsePythonDependencies: the next iteration of "for _,r:=range reqs", which
\* starts a worker; after the last one, start the closer and reach the loop
\* over depChan.
PySpawn ==
  /\ pcM = "spawn"
  /\ IF nextW <= Len(reqFile.reqs)
     THEN /\ wg' = wg + 1
          /\ wpc' = [wpc EXCEPT ![nextW] = "new"]
          /\ nextW' = nextW + 1
          /\ UNCHANGED <<pcM, pcC>>
     ELSE /\ pcC' = "wait"
          /\ pcM' = "rangeDep"
          /\ UNCHANGED <<wg, wpc, nextW>>
  /\ UNCHANGED <<pyVariant, reqFile, pypi, wstack, wvisited, wmap, wres,
                 depClosed, errClosed, results, errLog, pyErr>>
  /\ UNCHANGED <<nodeVars, restVars>>

\* A worker that calls wg.Done() when its call has returned, before it sends.
PyRun_DoneEarly(w) ==
  /\ wpc[w] = "new"
  /\ \E resp \in PyAnswers(w, reqFile.reqs[w].name, reqFile.reqs[w].version) :
       LET r == resolvePythonDependency(reqFile.reqs[w].name,
                                        reqFile.reqs[w].version, resp, Empty,
                                        wvisited[w])
       IN /\ wvisited' = [wvisited EXCEPT ![w] = r.visited]
          /\ pypi' = IF r.fetched /\ reqFile.reqs[w].name \notin DOMAIN pypi
                     THEN pypi @@ (reqFile.reqs[w].name :> resp) ELSE pypi
          /\ wres' = [wres EXCEPT ![w] =
                        IF r.kind = "frame"
                        THEN [kind |-> "node", node |-> PyResult(r.frame)]
                        ELSE [kind |-> r.kind]]
          /\ wpc' = [wpc EXCEPT ![w] = "send"]
  /\ wmap' = [wmap EXCEPT ![w] = NewMap]
  /\ wg' = wg - 1
  /\ UNCHANGED <<pyVariant, reqFile, wstack, nextW, pcM, pcC,
                 depClosed, errClosed, results, errLog, pyErr>>
  /\ UNCHANGED <<nodeVars, restVars>>

\* Workers that are all given one map, made before the loop that starts them.
PyRun_SharedMap(w) ==
  /\ wpc[w] = "new"
  /\ \E resp \in PyAnswers(w, reqFile.reqs[w].name, reqFile.reqs[w].version) :
       LET r == resolvePythonDependency(reqFile.reqs[w].name,
                                        reqFile.reqs[w].version, resp, Empty,
                                        UNION {wvisited[v] : v \in {u \in 1..MaxReqs : wmap[u] = 1}})
       IN /\ wvisited' = [wvisited EXCEPT ![w] = r.visited]
          /\ pypi' = IF r.fetched /\ reqFile.reqs[w].name \notin DOMAIN pypi
                     THEN pypi @@ (reqFile.reqs[w].name :> resp) ELSE pypi
          /\ wres' = [wres EXCEPT ![w] =
                        IF r.kind = "frame"
                        THEN [kind |-> "node", node |-> PyResult(r.frame)]
                        ELSE [kind |-> r.kind]]
          /\ wpc' = [wpc EXCEPT ![w] = "send"]
  /\ wmap' = [wmap EXCEPT ![w] = 1]
  /\ UNCHANGED <<pyVariant, reqFile, wstack, wg, nextW, pcM, pcC,
                 depClosed, errClosed, results, errLog, pyErr>>
  /\ UNCHANGED <<nodeVars, restVars>>

\* Worker w of checker.go: dp,e:=resolvePythonDependency(nm,vr,map[string]bool{}).
PyRun(w) ==
  /\ wpc[w] = "new"
  /\ \E resp \in PyAnswers(w, reqFile.reqs[w].name, reqFile.reqs[w].version) :
       LET r == resolvePythonDependency(reqFile.reqs[w].name,
                                        reqFile.reqs[w].version, resp, Empty,
                                        wvisited[w])
       IN /\ wvisited' = [wvisited EXCEPT ![w] = r.visited]
          /\ pypi' = IF r.fetched /\ reqFile.reqs[w].name \notin DOMAIN pypi
                     THEN pypi @@ (reqFile.reqs[w].name :> resp) ELSE pypi
          /\ wres' = [wres EXCEPT ![w] =
                        IF r.kind = "frame"
                        THEN [kind |-> "node", node |-> PyResult(r.frame)]
                        ELSE [kind |-> r.kind]]
          /\ wpc' = [wpc EXCEPT ![w] = "send"]
  /\ wmap' = [wmap EXCEPT ![w] = NewMap]
  /\ UNCHANGED <<pyVariant, reqFile, wstack, wg, nextW, pcM, pcC,
                 depClosed, errClosed, results, errLog, pyErr>>
  /\ UNCHANGED <<nodeVars, restVars>>

\* Worker w of the transitive snapshot: the outermost call of
\* resolvePythonDependency, with a map of its own.
PyEnter(w) ==
  /\ wpc[w] = "new"
  /\ PyCall(w, reqFile.reqs[w].name, reqFile.reqs[w].version, <<>>)
  /\ wmap' = [wmap EXCEPT ![w] = NewMap]
  /\ UNCHANGED <<pyVariant, reqFile, wg, nextW, pcM, pcC,
                 depClosed, errClosed, results, errLog, pyErr>>
  /\ UNCHANGED <<nodeVars, restVars>>

\* resolvePythonDependency: the next iteration of "for _,item:=range distArr".
PyChild(w) ==
  /\ wpc[w] = "run" /\ wstack[w] # <<>> /\ WTop(w).dist # <<>>
  /\ LET sub == parseDistRequirement(Head(WTop(w).dist))
         base == [wstack[w] EXCEPT ![Len(wstack[w])].dist = Tail(@)]
     IN IF sub[1] # Empty
        THEN PyCall(w, sub[1], sub[2], base)
        ELSE /\ wstack' = [wstack EXCEPT ![w] = base]
             /\ UNCHANGED <<wvisited, pypi, wres, wpc>>
  /\ UNCHANGED <<pyVariant, reqFile, wmap, wg, nextW, pcM, pcC,
                 depClosed, errClosed, results, errLog, pyErr>>
  /\ UNCHANGED <<nodeVars, restVars>>

\* resolvePythonDependency: the loop is over; return the node, and the caller
\* appends it.  The outermost call's node is the goroutine's d.
PyReturn(w) ==
  /\ wpc[w] = "run" /\ wstack[w] # <<>> /\ WTop(w).dist = <<>>
  /\ LET nd == PyResult(WTop(w))
         n == Len(wstack[w])
     IN IF n = 1
        THEN /\ wstack' = [wstack EXCEPT ![w] = <<>>]
             /\ wres' = [wres EXCEPT ![w] = [kind |-> "node", node |-> nd]]
             /\ wpc' = [wpc EXCEPT ![w] = "send"]
        ELSE /\ wstack' = [wstack EXCEPT ![w] =
                             [SubSeq(@, 1, n - 1) EXCEPT ![n - 1].trans = Append(@, nd)]]
             /\ UNCHANGED <<wres, wpc>>
  /\ UNCHANGED <<pyVariant, reqFile, pypi, wvisited, wmap, wg, nextW, pcM, pcC,
                 depClosed, errClosed, results, errLog, pyErr>>
  /\ UNCHANGED <<nodeVars, restVars>>

\* Worker w after its call: "if e!=nil{errChan<-e;return}" and
\* "if dp!=nil{depChan<-*dp}".  Both channels are unbuffered: a send completes
\* together with the receive of the loop that parsePythonDependencies is in,
\* whose body runs with it; a send on a closed channel panics.
PySend(w) ==
  /\ wpc[w] = "send"
  /\ IF wres[w].kind = "err"
     THEN IF errClosed
          THEN /\ wpc' = [wpc EXCEPT ![w] = "panic"]
               /\ UNCHANGED <<results, errLog>>
          ELSE /\ pcM = "rangeErr"
               /\ errLog' = Append(errLog, w)
               /\ wpc' = [wpc EXCEPT ![w] = "deferred"]
               /\ UNCHANGED results
     ELSE IF wres[w].kind = "node"
     THEN IF depClosed
          THEN /\ wpc' = [wpc EXCEPT ![w] = "panic"]
               /\ UNCHANGED <<results, errLog>>
          ELSE /\ pcM = "rangeDep"
               /\ results' = Append(results, wres[w].node)
               /\ wpc' = [wpc EXCEPT ![w] = "deferred"]
               /\ UNCHANGED errLog
     ELSE /\ wpc' = [wpc EXCEPT ![w] = "deferred"]
          /\ UNCHANGED <<results, errLog>>
  /\ UNCHANGED <<pyVariant, reqFile, pypi, wstack, wvisited, wmap, wres, wg, nextW,
                 pcM, pcC, depClosed, errClosed, pyErr>>
  /\ UNCHANGED <<nodeVars, restVars>>

\* Worker w returns: the deferred wg.Done().
PyDone(w) ==
  /\ wpc[w] = "deferred"
  /\ wg' = wg - 1
  /\ wpc' = [wpc EXCEPT ![w] = "done"]
  /\ UNCHANGED <<pyVariant, reqFile, pypi, wstack, wvisited, wmap, wres, nextW,
                 pcM, pcC, depClosed, errClosed, results, errLog, pyErr>>
  /\ UNCHANGED <<nodeVars, restVars>>

\* A closer that closes depChan without waiting for the workers.
PyCloseDep_NoWait ==
  /\ pcC = "wait"
  /\ depClosed' = TRUE
  /\ pcC' = "closeErr"
  /\ UNCHANGED <<pyVariant, reqFile, pypi, wpc, wstack, wvisited, wmap, wres, wg,
                 nextW, pcM, errClosed, results, errLog, pyErr>>
  /\ UNCHANGED <<nodeVars, restVars>>

\* The closer: wg.Wait() returns, close(depChan).
PyCloseDep ==
  /\ pcC = "wait" /\ wg = 0
  /\ depClosed' = TRUE
  /\ pcC' = "closeErr"
  /\ UNCHANGED <<pyVariant, reqFile, pypi, wpc, wstack, wvisited, wmap, wres, wg,
                 nextW, pcM, errClosed, results, errLog, pyErr>>
  /\ UNCHANGED <<nodeVars, restVars>>

\* The closer: close(errChan).
PyCloseErr ==
  /\ pcC = "closeErr"
  /\ errClosed' = TRUE
  /\ pcC' = "done"
  /\ UNCHANGED <<pyVariant, reqFile, pypi, wpc, wstack, wvisited, wmap, wres, wg,
                 nextW, pcM, depClosed, results, errLog, pyErr>>
  /\ UNCHANGED <<nodeVars, restVars>>

\* parsePythonDependencies: "for d:=range depChan" ends on the closed channel.
PyDepDrained ==
  /\ pcM = "rangeDep" /\ depClosed
  /\ pcM' = "rangeErr"
  /\ UNCHANGED <<pyVariant, reqFile, pypi, wpc, wstack, wvisited, wmap, wres, wg,
                 nextW, pcC, depClosed, errClosed, results, errLog, pyErr>>
  /\ UNCHANGED <<nodeVars, restVars>>

\* parsePythonDependencies: "for e:=range errChan" ends on the closed channel;
\* return results, nil.
PyErrDrained ==
  /\ pcM = "rangeErr" /\ errClosed
  /\ pcM' = "returned"
  /\ UNCHANGED <<pyVariant, reqFile, pypi, wpc, wstack, wvisited, wmap, wres, wg,
                 nextW, pcC, depClosed, errClosed, results, errLog, pyErr>>
  /\ UNCHANGED <<nodeVars, restVars>>

\* No package.json is being parsed.
NodeIdle ==
  /\ variant = "none"
  /\ manifest = [kind |-> "unreadable", deps |-> <<>>]
  /\ registry = <<>>
  /\ visited = {}
  /\ fetches = EmptyBag
  /\ pages = <<>>
  /\ stack = <<>>
  /\ topTodo = {}
  /\ out = <<>>
  /\ pcN = "done"
  /\ retErr = FALSE

PyInit(v) ==
  /\ pyVariant = v
  /\ reqFile \in ReqFiles
  /\ pypi = <<>>
  /\ wpc = [w \in 1..MaxReqs |-> "none"]
  /\ wstack = [w \in 1..MaxReqs |-> <<>>]
  /\ wvisited = [w \in 1..MaxReqs |-> {}]
  /\ wmap = [w \in 1..MaxReqs |-> 0]
  /\ wres = [w \in 1..MaxReqs |-> [kind |-> "none"]]
  /\ wg = 0
  /\ nextW = 1
  /\ pcM = "open"
  /\ pcC = "none"
  /\ depClosed = FALSE
  /\ errClosed = FALSE
  /\ results = <<>>
  /\ errLog = <<>>
  /\ pyErr = FALSE
  /\ NodeIdle
  /\ RestIdle

PyNext ==
  \/ PyOpen
  \/ PySpawn
  \/ \E w \in 1..MaxReqs : PyRun(w)
  \/ \E w \in 1..MaxReqs : PySend(w)
  \/ \E w \in 1..MaxReqs : PyDone(w)
  \/ PyCloseDep
  \/ PyCloseErr
  \/ PyDepDrained
  \/ PyErrDrained

PyTransNext ==
  \/ PyOpen
  \/ PySpawn
  \/ \E w \in 1..MaxReqs : PyEnter(w)
  \/ \E w \in 1..MaxReqs : PyChild(w)
  \/ \E w \in 1..MaxReqs : PyReturn(w)
  \/ \E w \in 1..MaxReqs : PySend(w)
  \/ \E w \in 1..MaxReqs : PyDone(w)
  \/ PyCloseDep
  \/ PyCloseErr
  \/ PyDepDrained
  \/ PyErrDrained

\* ------------------------------------------------------------------ license inference

LGPL == <<"L", "G", "P", "L">>
MixedLgpl == <<"L", "g", "p", "l">>

\* The strings a "license" field can hold: none, a permissive one, the text
\* "Unknown", a copyleft one in mixed case.
LicTexts == {Empty, MIT, Unknown, MixedLgpl}
\* The "type" and "name" of a license object: absent or a string.
LicFields == {LicAbsent} \cup {LicString(x) : x \in {Empty, ISC, GPL3}}
\* The shapes of versions[ver].license.
LicShapes ==
  {LicAbsent} \cup {LicString(x) : x \in LicTexts}
  \cup {LicObject(ty, nm) : ty \in LicFields, nm \in LicFields}
\* The shapes of versions[ver].licenses: absent or empty, a first element
\* that is no object, a first element that is an object.
LicArrays ==
  {<<>>, <<LicString(MIT)>>, <<LicString(MIT), LicObject(LicString(MIT), LicAbsent)>>}
  \cup {<<LicObject(ty, nm)>> : ty \in LicFields, nm \in LicFields}
\* What fallbackNpmLicenseByCurl can return: nothing, or one of the known
\* license keywords.
LicPages == PageResults \cup {LGPL}

\* The license lookup of resolvePythonDependency in info.
resolvePythonDependencyLicense(info) ==
  IF IsText(info.license) THEN info.license.v ELSE Unknown

\* The license the structured metadata gives, per snapshot: versions[ver] of
\* the Node registry document, or info of the PyPI document.
StructuredLicense(in) ==
  IF in.variant = "python" THEN resolvePythonDependencyLicense(in.verData)
  ELSE IF ~in.found THEN Unknown
  ELSE IF in.variant = "checker" THEN findNpmLicense(in.verData)
  ELSE resolveNodeDependencyInline(in.verData)

\* resolveNodeDependency, resolvePythonDependency: the structured lookup.
LicLookup ==
  /\ licPc = "lookup"
  /\ licVal' = StructuredLicense(licIn)
  /\ licPc' = IF licIn.variant = "checker" THEN "fallback" ELSE "return"
  /\ UNCHANGED <<licIn, pageFetched, licNode>>
  /\ UNCHANGED licRest

\* LicFallback that scrapes the package page whatever the license is.
LicFallback_AlwaysScrape ==
  /\ licPc = "fallback"
  /\ pageFetched' = TRUE
  /\ licVal' = IF licIn.page # Empty THEN licIn.page ELSE licVal
  /\ licPc' = "return"
  /\ UNCHANGED <<licIn, licNode>>
  /\ UNCHANGED licRest

\* resolveNodeDependency: 'if license=="Unknown"' scrapes the package page.
LicFallback ==
  /\ licPc = "fallback"
  /\ IF licVal = Unknown
     THEN /\ pageFetched' = TRUE
          /\ licVal' = IF licIn.page # Empty THEN licIn.page ELSE licVal
     ELSE UNCHANGED <<pageFetched, licVal>>
  /\ licPc' = "return"
  /\ UNCHANGED <<licIn, licNode>>
  /\ UNCHANGED licRest

\* LicReturn with Copyleft derived from the structured lookup's license, not
\* from the license the node carries.
LicReturn_StaleCopyleft ==
  /\ licPc = "return"
  /\ licNode' = [(IF licIn.variant = "python"
                   THEN PythonDependency(PkgA, V1, licVal, PyDetails(PkgA), <<>>, V1)
                   ELSE NodeDependency(PkgA, V1, licVal, <<>>, V1)) EXCEPT
                   !.Copyleft = isCopyleft(StructuredLicense(licIn))]
  /\ licPc' = "done"
  /\ UNCHANGED <<licIn, licVal, pageFetched>>
  /\ UNCHANGED licRest

\* resolveNodeDependency, resolvePythonDependency: return the node.
LicReturn ==
  /\ licPc = "return"
  /\ licNode' = IF licIn.variant = "python"
                THEN PythonDependency(PkgA, V1, licVal, PyDetails(PkgA), <<>>, V1)
                ELSE NodeDependency(PkgA, V1, licVal, <<>>, V1)
  /\ licPc' = "done"
  /\ UNCHANGED <<licIn, licVal, pageFetched>>
  /\ UNCHANGED licRest

LicInit ==
  /\ licIn \in [variant : {"checker", "inline", "python"}, found : BOOLEAN,
                verData : {VerData(l, arr, <<>>) : l \in LicShapes, arr \in LicArrays},
                page : LicPages]
  /\ licPc = "lookup"
  /\ licVal = Empty
  /\ pageFetched = FALSE
  /\ licNode = <<>>
  /\ NodeIdle
  /\ PyIdle
  /\ PrIdle
  /\ MainIdle
  /\ PipIdle
  /\ ScIdle

LicNext == LicLookup \/ LicFallback \/ LicReturn

\* ------------------------------------------------------------------ parseRequirements

RECURSIVE Split(_, _)
\* strings.Split(s, sep) for a non-empty sep
Split(s, sep) ==
  LET n == Len(sep)
      hits == {i \in 1..(Len(s) - n + 1) : SubSeq(s, i, i + n - 1) = sep}
  IN IF hits = {} THEN <<s>>
     ELSE LET i == CHOOSE h \in hits : \A g \in hits : h <= g
          IN <<SubSeq(s, 1, i - 1)>> \o Split(SubSeq(s, i + n, Len(s)), sep)

\* strings.HasPrefix(s, prefix)
HasPrefix(s, prefix) ==
  Len(s) >= Len(prefix) /\ SubSeq(s, 1, Len(prefix)) = prefix

RECURSIVE Join(_, _)
\* The content of a file with the given lines.
Join(lines, sep) ==
  IF lines = <<>> THEN <<>>
  ELSE IF Len(lines) = 1 THEN lines[1]
  ELSE lines[1] \o sep \o Join(Tail(lines), sep)

EqSep == <<"=", "=">>
GeSep == <<">", "=">>
NewLine == <<"\n">>

\* The lines of the bounded requirements files: both forms, with and without
\* blanks around the parts, a blank line, a line of blanks, a comment, lines
\* without a separator, and lines with more than one separator.
ReqLines ==
  { <<"a", "=", "=", "1">>,
    <<"b", ">", "=", "2">>,
    <<" ", "c", " ", "=", "=", " ", "1", "\r">>,
    <<>>,
    <<" ", "\t">>,
    <<"#", "a", "=", "=", "1">>,
    <<"a", "=", "1">>,
    <<"a", "=", "=", "1", "=", "=", "2">>,
    <<"a", ">", "=", "1", ",", "=", "=", "2">> }

\* One pass of the loop of parseRequirements over the line ln: what is
\* appended to out, and whether the line is logged as invalid.
parseRequirementsLine(ln) ==
  LET line == TrimSpace(ln)
      pe == Split(line, EqSep)
      pg == Split(line, GeSep)
  IN IF line = Empty \/ HasPrefix(line, <<"#">>)
     THEN [out |-> <<>>, invalid |-> FALSE]
     ELSE IF Len(pe) = 2
     THEN [out |-> <<Requirement(TrimSpace(pe[1]), TrimSpace(pe[2]))>>, invalid |-> FALSE]
     ELSE IF Len(pg) = 2
     THEN [out |-> <<Requirement(TrimSpace(pg[1]), TrimSpace(pg[2]))>>, invalid |-> FALSE]
     ELSE [out |-> <<>>, invalid |-> TRUE]

\* parseRequirements: io.ReadAll and the split into lines.
PrRead ==
  /\ prPc = "read"
  /\ IF prIn.kind = "ok"
     THEN prLines' = Split(prIn.raw, NewLine) /\ prPc' = "loop"
     ELSE prLines' = <<>> /\ prPc' = "failed"
  /\ UNCHANGED <<prIn, prOut, prLog>>
  /\ UNCHANGED prRest

\* parseRequirements: the next iteration of "for _,ln:=range lines".
PrLine ==
  /\ prPc = "loop" /\ prLines # <<>>
  /\ LET r == parseRequirementsLine(Head(prLines))
     IN /\ prOut' = prOut \o r.out
        /\ prLog' = IF r.invalid THEN Append(prLog, TrimSpace(Head(prLines))) ELSE prLog
  /\ prLines' = Tail(prLines)
  /\ UNCHANGED <<prIn, prPc>>
  /\ UNCHANGED prRest

\* parseRequirements: return out, nil.
PrReturn ==
  /\ prPc = "loop" /\ prLines = <<>>
  /\ prPc' = "done"
  /\ UNCHANGED <<prIn, prLines, prOut, prLog>>
  /\ UNCHANGED prRest

PrInit ==
  /\ prIn \in {[kind |-> "ok", raw |-> Join(q, NewLine)] : q \in SeqsUpTo(ReqLines, MaxLines)}
              \cup {[kind |-> "readerr", raw |-> <<>>]}
  /\ prLines = <<>>
  /\ prOut = <<>>
  /\ prLog = <<>>
  /\ prPc = "read"
  /\ NodeIdle
  /\ PyIdle
  /\ LicIdle
  /\ MainIdle
  /\ PipIdle
  /\ ScIdle

PrNext == PrRead \/ PrLine \/ PrReturn

\* ------------------------------------------------------------------ main

Direct == <<"D", "i", "r", "e", "c", "t">>
NodeRootName == <<"N", "o", "d", "e", ".", "j", "s", " ", "D", "e", "p", "e", "n", "d", "e", "n", "c", "i", "e", "s">>
PyRootName == <<"P", "y", "t", "h", "o", "n", " ", "D", "e", "p", "e", "n", "d", "e", "n", "c", "i", "e", "s">>
NodeStubName == <<"N", "o", " ", "N", "o", "d", "e", " ", "d", "e", "p", "e", "n", "d", "e", "n", "c", "i", "e", "s">>
PyStubName == <<"N", "o", " ", "P", "y", "t", "h", "o", "n", " ", "d", "e", "p", "e", "n", "d", "e", "n", "c", "i", "e", "s">>

\* The FlatDep struct built from a node and the name of its parent.
FlatDep(nd, parent) ==
  [Name |-> nd.Name, Version |-> nd.Version, License |-> nd.License,
   Details |-> nd.Details, Language |-> nd.Language, Parent |-> parent]

RECURSIVE flattenNodeAll_RootParent(_, _)
\* A flattening that hands its own parent down to the children.
flattenNodeAll_RootParent(nds, parent) ==
  IF nds = <<>> THEN <<>>
  ELSE <<FlatDep(Head(nds), parent)>>
       \o flattenNodeAll_RootParent(Head(nds).Transitive, parent)
       \o flattenNodeAll_RootParent(Tail(nds), parent)

RECURSIVE flattenNodeAll(_, _)
flattenNodeAll(nds, parent) ==
  IF nds = <<>> THEN <<>>
  ELSE <<FlatDep(Head(nds), parent)>>
       \o (IF Len(Head(nds).Transitive) > 0
           THEN flattenNodeAll(Head(nds).Transitive, Head(nds).Name)
           ELSE <<>>)
       \o flattenNodeAll(Tail(nds), parent)

RECURSIVE flattenPyAll_ChildrenFirst(_, _)
\* A flattening that appends the record of a node after those of its subtree.
flattenPyAll_ChildrenFirst(pds, parent) ==
  IF pds = <<>> THEN <<>>
  ELSE (IF Len(Head(pds).Transitive) > 0
        THEN flattenPyAll_ChildrenFirst(Head(pds).Transitive, Head(pds).Name)
        ELSE <<>>)
       \o <<FlatDep(Head(pds), parent)>>
       \o flattenPyAll_ChildrenFirst(Tail(pds), parent)

RECURSIVE flattenPyAll(_, _)
flattenPyAll(pds, parent) ==
  IF pds = <<>> THEN <<>>
  ELSE <<FlatDep(Head(pds), parent)>>
       \o (IF Len(Head(pds).Transitive) > 0
           THEN flattenPyAll(Head(pds).Transitive, Head(pds).Name)
           ELSE <<>>)
       \o flattenPyAll(Tail(pds), parent)

\* JSON values: null, and an array of values.
JNull == [t |-> "null"]
JArray(q) == [t |-> "array", v |-> q]

RECURSIVE Marshal(_)
\* encoding/json on a slice of nodes: a nil slice gives null, a node gives an
\* object of its exported fields, its Transitive slice encoded likewise.
Marshal(nds) ==
  IF nds = <<>> THEN JNull
  ELSE JArray([i \in 1..Len(nds) |->
                 [t |-> "object", Name |-> nds[i].Name, Version |-> nds[i].Version,
                  License |-> nds[i].License, Details |-> nds[i].Details,
                  Copyleft |-> nds[i].Copyleft,
                  Transitive |-> Marshal(nds[i].Transitive),
                  Language |-> nds[i].Language]])

\* The map a tree document is encoded from.
TreeRoot(nm, nds) ==
  [t |-> "object", Name |-> nm, Version |-> Empty, Transitive |-> Marshal(nds)]

\* The stub node of part_002's buildTreeJSON.
Stub(nm, lang) ==
  [Name |-> nm, Version |-> Empty, License |-> Empty, Details |-> Empty,
   Copyleft |-> FALSE, Transitive |-> <<>>, Language |-> lang, Req |-> Empty]

\* A buildTreeJSON that gives no document for an empty forest.
buildTreeJSON_NoRootWhenEmpty(prog, node, py) ==
  [njson |-> IF node = <<>> THEN JNull ELSE TreeRoot(NodeRootName, node),
   pjson |-> IF py = <<>> THEN JNull ELSE TreeRoot(PyRootName, py)]

\* buildTreeJSON of the snapshot prog; encoding these values cannot fail.
buildTreeJSON(prog, node, py) ==
  LET node1 == IF prog = "part_002" /\ Len(node) = 0
               THEN <<Stub(NodeStubName, "node")>> ELSE node
      py1 == IF prog = "part_002" /\ Len(py) = 0
             THEN <<Stub(PyStubName, "python")>> ELSE py
  IN [njson |-> TreeRoot(NodeRootName, node1), pjson |-> TreeRoot(PyRootName, py1)]

\* main: look for package.json and call parseNodeDependencies on it.
MainNode ==
  /\ mainPc = "node"
  /\ IF manifest.kind # "absent"
     THEN pcN' = "parse" /\ mainPc' = "nodeWait"
     ELSE pcN' = pcN /\ mainPc' = "python"
  /\ UNCHANGED <<variant, manifest, registry, visited, fetches, pages, stack, topTodo,
                 out, retErr>>
  /\ UNCHANGED <<program, nodeDeps, pyDeps, allFlat, njson, pjson, report, exitCode>>
  /\ UNCHANGED <<pyVars, mainRest>>

\* main: parseNodeDependencies returned; nodeDeps is set when err is nil.
MainNodeReturned ==
  /\ mainPc = "nodeWait" /\ pcN = "done"
  /\ nodeDeps' = IF retErr THEN <<>> ELSE out
  /\ mainPc' = "python"
  /\ UNCHANGED <<program, pyDeps, allFlat, njson, pjson, report, exitCode>>
  /\ UNCHANGED <<nodeVars, pyVars, mainRest>>

\* main: look for requirements.txt and call parsePythonDependencies on it.
MainPython ==
  /\ mainPc = "python"
  /\ IF reqFile.kind # "absent"
     THEN pcM' = "open" /\ mainPc' = "pythonWait"
     ELSE pcM' = pcM /\ mainPc' = "flatten"
  /\ UNCHANGED <<pyVariant, reqFile, pypi, wpc, wstack, wvisited, wmap, wres, wg, nextW,
                 pcC, depClosed, errClosed, results, errLog, pyErr>>
  /\ UNCHANGED <<program, nodeDeps, pyDeps, allFlat, njson, pjson, report, exitCode>>
  /\ UNCHANGED <<nodeVars, mainRest>>

\* main: parsePythonDependencies returned; pyDeps is set when err is nil.
MainPythonReturned ==
  /\ mainPc = "pythonWait" /\ pcM = "returned"
  /\ pyDeps' = IF pyErr THEN <<>> ELSE results
  /\ mainPc' = "flatten"
  /\ UNCHANGED <<program, nodeDeps, allFlat, njson, pjson, report, exitCode>>
  /\ UNCHANGED <<nodeVars, pyVars, mainRest>>

\* main: flatten both forests into allFlat.
MainFlatten ==
  /\ mainPc = "flatten"
  /\ allFlat' = flattenNodeAll(nodeDeps, Direct) \o flattenPyAll(pyDeps, Direct)
  /\ mainPc' = "tree"
  /\ UNCHANGED <<program, nodeDeps, pyDeps, njson, pjson, report, exitCode>>
  /\ UNCHANGED <<nodeVars, pyVars, mainRest>>

\* main: build the two tree documents.
MainTree ==
  /\ mainPc = "tree"
  /\ LET r == buildTreeJSON(program, nodeDeps, pyDeps)
     IN njson' = r.njson /\ pjson' = r.pjson
  /\ mainPc' = "html"
  /\ UNCHANGED <<program, nodeDeps, pyDeps, allFlat, report, exitCode>>
  /\ UNCHANGED <<nodeVars, pyVars, mainRest>>

\* main: generateSingleHTML writes the report or fails; os.Exit(1) on failure.
MainReport ==
  /\ mainPc = "html"
  /\ \E ok \in BOOLEAN :
       /\ report' = IF ok THEN [Deps |-> allFlat, NodeJSON |-> njson, PythonJSON |-> pjson]
                    ELSE <<>>
       /\ exitCode' = IF ok THEN 0 ELSE 1
  /\ mainPc' = "exited"
  /\ UNCHANGED <<program, nodeDeps, pyDeps, allFlat, njson, pjson>>
  /\ UNCHANGED <<nodeVars, pyVars, mainRest>>

\* What main can find on disk: no package.json, or a manifest with at most
\* one entry; no requirements.txt, or one of the bounded files.
MainManifests ==
  {m \in Manifests : Cardinality(DOMAIN m.deps) <= 1}
  \cup {[kind |-> "absent", deps |-> <<>>]}
MainReqFiles == ReqFiles \cup {[kind |-> "absent", reqs |-> <<>>]}
Missing == {"absent", "unreadable", "nodeps"}

\* The process starts: nothing is resolved yet. One of the two ecosystems at
\* least has no usable manifest.
MainInit ==
  /\ program = "checker"
  /\ mainPc = "node"
  /\ nodeDeps = <<>>
  /\ pyDeps = <<>>
  /\ allFlat = <<>>
  /\ njson = <<>>
  /\ pjson = <<>>
  /\ report = <<>>
  /\ exitCode = -1
  /\ variant = "checker"
  /\ manifest \in MainManifests
  /\ registry = <<>>
  /\ visited = {}
  /\ fetches = EmptyBag
  /\ pages = <<>>
  /\ stack = <<>>
  /\ topTodo = {}
  /\ out = <<>>
  /\ pcN = "done"
  /\ retErr = FALSE
  /\ pyVariant = "checker"
  /\ reqFile \in MainReqFiles
  /\ manifest.kind \in Missing \/ reqFile.kind \in Missing \/ reqFile.reqs = <<>>
  /\ pypi = <<>>
  /\ wpc = [w \in 1..MaxReqs |-> "none"]
  /\ wstack = [w \in 1..MaxReqs |-> <<>>]
  /\ wvisited = [w \in 1..MaxReqs |-> {}]
  /\ wmap = [w \in 1..MaxReqs |-> 0]
  /\ wres = [w \in 1..MaxReqs |-> [kind |-> "none"]]
  /\ wg = 0
  /\ nextW = 1
  /\ pcM = "returned"
  /\ pcC = "none"
  /\ depClosed = FALSE
  /\ errClosed = FALSE
  /\ results = <<>>
  /\ errLog = <<>>
  /\ pyErr = FALSE
  /\ LicIdle
  /\ PrIdle
  /\ PipIdle
  /\ ScIdle

MainSteps ==
  \/ MainNode
  \/ MainNodeReturned
  \/ MainPython
  \/ MainPythonReturned
  \/ MainFlatten
  \/ MainTree
  \/ MainReport

MainNext == NodeNext \/ PyNext \/ MainSteps

\* The PyPackageNode struct of part_004.
PyPackageNode(key, ver, deps) ==
  [Key |-> key, InstalledVersion |-> ver, Dependencies |-> deps]

\* A node of a bounded forest of the given ecosystem.
ForestNode(lang, p, trans) ==
  IF lang = "node" THEN NodeDependency(p, V1, MIT, trans, V1)
  ELSE IF lang = "pip" THEN PyPackageNode(p, V1, trans)
  ELSE PythonDependency(p, V1, MIT, <<"https://pypi.org/pypi/">> \o p \o <<"/json">>, trans, V1)

RECURSIVE Forests(_, _)
\* The forests of exactly n nodes.
Forests(lang, n) ==
  IF n = 0 THEN {<<>>}
  ELSE UNION {{<<ForestNode(lang, p, ch)>> \o rest :
                 p \in Pkgs, ch \in Forests(lang, k - 1), rest \in Forests(lang, n - k)} :
              k \in 1..n}

\* main from its flattening step on, for every pair of bounded forests and
\* both snapshots of buildTreeJSON.
ReportInit ==
  /\ program \in {"checker", "part_002"}
  /\ mainPc = "flatten"
  /\ \E i \in 0..MaxNodes : \E j \in 0..(MaxNodes - i) :
       /\ nodeDeps \in Forests("node", i)
       /\ pyDeps \in Forests("python", j)
  /\ allFlat = <<>>
  /\ njson = <<>>
  /\ pjson = <<>>
  /\ report = <<>>
  /\ exitCode = -1
  /\ NodeIdle
  /\ PyIdle
  /\ LicIdle
  /\ PrIdle
  /\ PipIdle
  /\ ScIdle

ReportNext == MainFlatten \/ MainTree \/ MainReport

\* ------------------------------------------------------------------ pipdeptree

\* What findPythonInstalledLicense finds in the local environment.
InstalledLicense(p) == IF p = PkgA THEN GPL3 ELSE Unknown

PipDetails == <<"local python env - pipdeptree">>

\* The outputs of pipdeptree: a forest of package nodes, or a failure.
PipOutputs ==
  {[kind |-> "ok", top |-> f] : f \in UNION {Forests("pip", n) : n \in 0..MaxNodes}}
  \cup {[kind |-> "cmderr", top |-> <<>>]}

\* The struct at address id is handed to the caller whose frames are base:
\* the caller appends it to pd.Transitive, parsePythonDependencies to results.
AttachHeap(h, base, id) ==
  IF base = <<>> THEN h
  ELSE [h EXCEPT ![base[Len(base)].id].Transitive = Append(@, id)]
AttachResults(base, id) ==
  IF base = <<>> THEN Append(pipResults, id) ELSE pipResults

\* A call buildPyDepTree(node, cache, visited) made with the callers' frames
\* base: it returns at once (the cached struct of a key seen before, or nil)
\* or allocates the struct and enters its loop.
buildPyDepTree(node, base) ==
  LET nameUp == ToUpper(node.Key)
      id == Cardinality(DOMAIN heap) + 1
  IN IF nameUp \in btVisited
     THEN /\ heap' = IF nameUp \in DOMAIN btCache
                     THEN AttachHeap(heap, base, btCache[nameUp]) ELSE heap
          /\ pipResults' = IF nameUp \in DOMAIN btCache
                           THEN AttachResults(base, btCache[nameUp]) ELSE pipResults
          /\ btStack' = base
          /\ UNCHANGED <<btCache, btVisited>>
     ELSE /\ btVisited' = btVisited \cup {nameUp}
          /\ heap' = heap @@ (id :> PythonDependency(node.Key, node.InstalledVersion,
                                       InstalledLicense(node.Key), PipDetails, <<>>, Empty))
          /\ btCache' = [k \in DOMAIN btCache \cup {nameUp} |->
                           IF k = nameUp THEN id ELSE btCache[k]]
          /\ btStack' = Append(base, [id |-> id, todo |-> node.Dependencies])
          /\ pipResults' = pipResults

BtTopFrame == btStack[Len(btStack)]

\* parsePythonDependencies of part_004: run pipdeptree and decode its output.
PipRun ==
  /\ pipPc = "run"
  /\ IF pipIn.kind = "ok"
     THEN btTodo' = pipIn.top /\ pipPc' = "range"
     ELSE btTodo' = <<>> /\ pipPc' = "failed"
  /\ UNCHANGED <<pipIn, heap, btStack, btCache, btVisited, pipResults, flStack, flOut>>
  /\ UNCHANGED pipRest

\* parsePythonDependencies: the next iteration of "for _, tn := range topNodes".
BtTop ==
  /\ pipPc = "range" /\ btStack = <<>> /\ btTodo # <<>>
  /\ buildPyDepTree(Head(btTodo), <<>>)
  /\ btTodo' = Tail(btTodo)
  /\ UNCHANGED <<pipIn, flStack, flOut, pipPc>>
  /\ UNCHANGED pipRest

\* buildPyDepTree: the next iteration of "for _, child := range node.Dependencies".
BtChild ==
  /\ pipPc = "range" /\ btStack # <<>> /\ BtTopFrame.todo # <<>>
  /\ buildPyDepTree(Head(BtTopFrame.todo),
                    [btStack EXCEPT ![Len(btStack)].todo = Tail(@)])
  /\ UNCHANGED <<pipIn, btTodo, flStack, flOut, pipPc>>
  /\ UNCHANGED pipRest

\* buildPyDepTree: the loop is over; return pd, and the caller appends it.
BtReturn ==
  /\ pipPc = "range" /\ btStack # <<>> /\ BtTopFrame.todo = <<>>
  /\ LET base == SubSeq(btStack, 1, Len(btStack) - 1) IN
     /\ heap' = AttachHeap(heap, base, BtTopFrame.id)
     /\ pipResults' = AttachResults(base, BtTopFrame.id)
     /\ btStack' = base
  /\ UNCHANGED <<pipIn, btCache, btVisited, btTodo, flStack, flOut, pipPc>>
  /\ UNCHANGED pipRest

\* parsePythonDependencies returns results and main calls
\* flattenPyAll(pyDeps, "Direct").
PipReturn ==
  /\ pipPc = "range" /\ btStack = <<>> /\ btTodo = <<>>
  /\ pipPc' = "flatten"
  /\ flStack' = <<[pds |-> pipResults, i |-> 1, parent |-> Direct]>>
  /\ UNCHANGED <<pipIn, heap, btCache, btVisited, btStack, btTodo, pipResults, flOut>>
  /\ UNCHANGED pipRest

FlTopFrame == flStack[Len(flStack)]

\* flattenPyAll: one iteration of "for _, pd := range pds", up to the
\* recursive call, or the return when the range is over.
FlStep ==
  /\ pipPc = "flatten" /\ flStack # <<>> /\ Len(flOut) < MaxFlat
  /\ IF FlTopFrame.i > Len(FlTopFrame.pds)
     THEN /\ flStack' = SubSeq(flStack, 1, Len(flStack) - 1)
          /\ flOut' = flOut
     ELSE LET pd == heap[FlTopFrame.pds[FlTopFrame.i]]
              rest == [flStack EXCEPT ![Len(flStack)].i = @ + 1]
          IN /\ flOut' = Append(flOut, FlatDep(pd, FlTopFrame.parent))
             /\ flStack' = IF Len(pd.Transitive) > 0
                           THEN Append(rest, [pds |-> pd.Transitive, i |-> 1,
                                              parent |-> pd.Name])
                           ELSE rest
  /\ UNCHANGED <<pipIn, heap, btStack, btCache, btVisited, btTodo, pipResults, pipPc>>
  /\ UNCHANGED pipRest

\* flattenPyAll returned to main.
FlReturn ==
  /\ pipPc = "flatten" /\ flStack = <<>>
  /\ pipPc' = "done"
  /\ UNCHANGED <<pipIn, heap, btStack, btCache, btVisited, btTodo, pipResults,
                 flStack, flOut>>
  /\ UNCHANGED pipRest

PipInit ==
  /\ pipIn \in PipOutputs
  /\ heap = <<>>
  /\ btStack = <<>>
  /\ btCache = <<>>
  /\ btVisited = {}
  /\ btTodo = <<>>
  /\ pipResults = <<>>
  /\ flStack = <<>>
  /\ flOut = <<>>
  /\ pipPc = "run"
  /\ NodeIdle
  /\ PyIdle
  /\ LicIdle
  /\ PrIdle
  /\ MainIdle
  /\ ScIdle

PipNext == PipRun \/ BtTop \/ BtChild \/ BtReturn \/ PipReturn \/ FlStep \/ FlReturn

\* ------------------------------------------------------------------ page scrape

\* knownLicenses of parseLicenseFromLine (checker.go).
KnownLicenses == <<
    <<"M", "I", "T">>,
    <<"B", "S", "D">>,
    <<"A", "P", "A", "C", "H", "E">>,
    <<"I", "S", "C">>,
    <<"A", "R", "T", "I", "S", "T", "I", "C">>,
    <<"Z", "L", "I", "B">>,
    <<"W", "T", "F", "P", "L">>,
    <<"C", "D", "D", "L">>,
    <<"U", "N", "L", "I", "C", "E", "N", "S", "E">>,
    <<"E", "U", "P", "L">>,
    <<"M", "P", "L">>,
    <<"C", "C", "0">>,
    <<"L", "G", "P", "L">>,
    <<"A", "G", "P", "L">> >>

\* known of parseLicenseLine (part_006).
KnownLicenseLine == <<
    <<"M", "I", "T">>,
    <<"I", "S", "C">>,
    <<"B", "S", "D">>,
    <<"A", "P", "A", "C", "H", "E">>,
    <<"A", "R", "T", "I", "S", "T", "I", "C">>,
    <<"Z", "L", "I", "B">>,
    <<"W", "T", "F", "P", "L">>,
    <<"C", "D", "D", "L">>,
    <<"U", "N", "L", "I", "C", "E", "N", "S", "E">>,
    <<"E", "U", "P", "L">>,
    <<"M", "P", "L">>,
    <<"C", "C", "0">>,
    <<"L", "G", "P", "L">>,
    <<"A", "G", "P", "L">>,
    <<"B", "S", "D", "-", "2", "-", "C", "L", "A", "U", "S", "E">>,
    <<"B", "S", "D", "-", "3", "-", "C", "L", "A", "U", "S", "E">>,
    <<"X", "1", "1">> >>

\* The first keyword of the list that the upper-cased line contains, "" when
\* there is none.
FirstKeyword(known, line) ==
  LET up == ToUpper(line)
      hits == {k \in 1..Len(known) : Contains(up, known[k])}
  IN IF hits = {} THEN Empty
     ELSE known[CHOOSE k \in hits : \A h \in hits : k <= h]

parseLicenseFromLine(line) == FirstKeyword(KnownLicenses, line)
parseLicenseLine(line) == FirstKeyword(KnownLicenseLine, line)

LicenseWord == <<"l", "i", "c", "e", "n", "s", "e">>

\* grep -i license: the lines that hold the word, in any letter case.
GrepLicense(lines) == SelectSeq(lines, LAMBDA ln : Contains(ToLower(ln), LicenseWord))

RECURSIVE FirstNonEmpty(_)
\* The first non-empty string of a sequence, "" when there is none.
FirstNonEmpty(q) ==
  IF q = <<>> THEN Empty
  ELSE IF Head(q) # Empty THEN Head(q) ELSE FirstNonEmpty(Tail(q))

\* fallbackNpmLicenseByCurl on the page curl fetched: the first line of grep's
\* output in which parseLicenseFromLine finds a keyword decides.
fallbackNpmLicenseByCurl(fetched, lines) ==
  IF ~fetched \/ GrepLicense(lines) = <<>> THEN Empty
  ELSE LET grepOut == GrepLicense(lines)
       IN FirstNonEmpty([k \in 1..Len(grepOut) |->
                           IF TrimSpace(grepOut[k]) = Empty THEN Empty
                           ELSE parseLicenseFromLine(TrimSpace(grepOut[k]))])

\* The lines fallbackNpmLicenseMultiLine looks at below a line with "license".
Window == 10

RECURSIVE fallbackNpmLicenseMultiLineFrom(_, _)
\* The loop "for i" of fallbackNpmLicenseMultiLine, from line i on.
fallbackNpmLicenseMultiLineFrom(lines, i) ==
  IF i > Len(lines) THEN Empty
  ELSE IF Contains(ToLower(lines[i]), LicenseWord)
  THEN LET last == IF i + Window < Len(lines) THEN i + Window ELSE Len(lines)
           found == FirstNonEmpty([k \in 1..(last - i + 1) |->
                                     parseLicenseLine(lines[i + k - 1])])
       IN IF found # Empty THEN found
          ELSE fallbackNpmLicenseMultiLineFrom(lines, i + 1)
  ELSE fallbackNpmLicenseMultiLineFrom(lines, i + 1)

\* fallbackNpmLicenseMultiLine on the page http.Get fetched.
fallbackNpmLicenseMultiLine(fetched, lines) ==
  IF ~fetched THEN Empty ELSE fallbackNpmLicenseMultiLineFrom(lines, 1)

\* The lines of the bounded pages: text without the word and without a
\* keyword, the word alone, a keyword alone, the word with a keyword, and
\* the word with two keywords, the later of the list written first.
PageFiller == <<"x">>
PageLines ==
  { <<"L", "i", "c", "e", "n", "s", "e">>,
    <<" ", "z", "l", "i", "b">>,
    <<"l", "i", "c", "e", "n", "s", "e", ":", " ", "C", "C", "0">>,
    <<"l", "i", "c", "e", "n", "s", "e", " ", "I", "S", "C", "/", "B", "S", "D", "/", "M", "I", "T">> }

\* The bounded pages of n lines, up to three of them not filler.
Pages(n) ==
  UNION {{[i \in 1..n |-> IF i \in S THEN f[i] ELSE PageFiller] :
            f \in [S -> PageLines]} :
         S \in {T \in SUBSET (1..n) : Cardinality(T) <= 3}}

\* fallbackNpmLicenseByCurl is called and returns.
ScrapeByCurl ==
  /\ scPc = "call" /\ scIn.variant = "curl"
  /\ scOut' = fallbackNpmLicenseByCurl(scIn.fetched, scIn.lines)
  /\ scPc' = "done"
  /\ UNCHANGED scIn
  /\ UNCHANGED scRest

\* fallbackNpmLicenseMultiLine is called and returns.
ScrapeMultiLine ==
  /\ scPc = "call" /\ scIn.variant = "multiline"
  /\ scOut' = fallbackNpmLicenseMultiLine(scIn.fetched, scIn.lines)
  /\ scPc' = "done"
  /\ UNCHANGED scIn
  /\ UNCHANGED scRest

ScInit ==
  /\ scIn \in [variant : {"curl", "multiline"}, fetched : BOOLEAN, lines : Pages(MaxPage)]
  /\ scOut = <<>>
  /\ scPc = "call"
  /\ NodeIdle
  /\ PyIdle
  /\ LicIdle
  /\ PrIdle
  /\ MainIdle
  /\ PipIdle

ScNext == ScrapeByCurl \/ ScrapeMultiLine

\* ------------------------------------------------------------------ programs

vars == <<nodeVars, pyVars, restVars>>

\* parseNodeDependencies and resolveNodeDependency of checker.go.
Init == NodeInit("checker")
Next == NodeNext
Spec == Init /\ [][Next]_vars

\* The snapshot whose resolveNodeDependency falls back to dist-tags.latest.
InitFallback == NodeInit("fallback")
SpecFallback == InitFallback /\ [][Next]_vars

\* The last snapshot of checker.go, whose call sites do not use removeCaretTilde.
InitInline == NodeInit("inline")
SpecInline == InitInline /\ [][Next]_vars

\* parsePythonDependencies and resolvePythonDependency of checker.go.
InitPy == PyInit("checker")
SpecPy == InitPy /\ [][PyNext]_vars

\* The snapshot whose resolvePythonDependency resolves requires_dist.
InitPyTrans == PyInit("transitive")
SpecPyTrans == InitPyTrans /\ [][PyTransNext]_vars

\* The license of one node, for every shape of the registry's license data.
SpecLicense == LicInit /\ [][LicNext]_vars

\* parseRequirements on every bounded requirements file.
SpecRequirements == PrInit /\ [][PrNext]_vars

\* main of checker.go, from the search for the manifests to the exit.
SpecMain == MainInit /\ [][MainNext]_vars

\* The flattening, the tree documents and the report, on bounded forests.
SpecReport == ReportInit /\ [][ReportNext]_vars

\* parsePythonDependencies of part_004 and the flattening of its result.
SpecPip == PipInit /\ [][PipNext]_vars

\* The two page scrapes on the bounded pages.
SpecScrape == ScInit /\ [][ScNext]_vars

\* ------------------------------------------------------------------ forests

RECURSIVE AllNodes(_)
\* Every node of a forest, parents before their descendants.
AllNodes(nds) ==
  IF nds = <<>> THEN <<>>
  ELSE <<Head(nds)>> \o AllNodes(Head(nds).Transitive) \o AllNodes(Tail(nds))

\* The nodes of the forest that satisfy a condition on name and specifier.
NodesNamed(nds, nm) == {i \in 1..Len(AllNodes(nds)) : AllNodes(nds)[i].Name = nm}
NodesFor(nds, nm, req) ==
  {i \in 1..Len(AllNodes(nds)) :
     AllNodes(nds)[i].Name = nm /\ AllNodes(nds)[i].Req = req}

\* The stripped specifiers a run can ask for.
Reqs == {removeCaretTilde(r) : r \in ManifestSpecs \cup DepSpecs}

Done == pcN = "done"
Fetched(p) == p \in DOMAIN registry
\* The fetch of p gave a document that decodes.
Decoded(p) == Fetched(p) /\ ~registry[p].err /\ registry[p].json

\* The dependencies map the snapshot reads when it expands p at specifier req.
UsedDeps(p, req) == Resolve(p, req, registry[p], {}).frame.deps
\* p at req declares q at the raw specifier that strips to qreq.
Declares(p, req, q, qreq) ==
  /\ Decoded(p)
  /\ Resolve(p, req, registry[p], {}).kind = "frame"
  /\ q \in DOMAIN UsedDeps(p, req)
  /\ removeCaretTilde(UsedDeps(p, req)[q]) = qreq

\* The stripped specifiers under which the manifest and the served dependency
\* maps ask for package q.
RefSpecs(q) ==
  {removeCaretTilde(manifest.deps[n]) : n \in DOMAIN manifest.deps \cap {q}}
  \cup UNION {UNION {{removeCaretTilde(registry[p].versions[v].deps[n]) :
                        n \in DOMAIN registry[p].versions[v].deps \cap {q}} :
                     v \in DOMAIN registry[p].versions} :
              p \in DOMAIN registry}

\* The run reached a cycle a -> b -> a, and every declaration of a and of b
\* asks for the same specifier.
Cycle(a, b) ==
  /\ Decoded(a) /\ Decoded(b)
  /\ \E ra \in {RefSpecs(a)}, rb \in {RefSpecs(b)} :
       \E sa \in ra, sb \in rb :
         /\ ra = {sa} /\ rb = {sb}
         /\ NodeKey(a, sa) \in visited
         /\ Declares(a, sa, b, sb) /\ Declares(b, sb, a, sa)

\* ------------------------------------------------------------------ claims

\* The work a run has left: every key not yet visited can cost one call, and
\* a call costs one step per dependency it declares and one to return.
Work ==
  (Cardinality(Pkgs) + 2) * Cardinality({k \in Pkgs \X Reqs : NodeKey(k[1], k[2]) \notin visited})
  + Len(stack)
  + Cardinality(UNION {{<<i, d>> : d \in stack[i].todo} : i \in 1..Len(stack)})
  + (IF pcN = "parse" THEN Cardinality(DOMAIN manifest.deps) + 2
     ELSE IF pcN = "range" THEN Cardinality(topTodo) + 1 ELSE 0)

\* C1: Node resolution terminates for every registry of the bounded family:
\* it is never stuck before parseNodeDependencies returns and every step
\* uses up work.  When it has run into a cycle a -> b -> a declared with
\* identical specifiers, the returned forest holds exactly one node named a
\* and exactly one node named b.
C1_CycleTerminatesOnce ==
  /\ [](Done \/ ENABLED Next)
  /\ [][Work' < Work]_vars
  /\ [](Done => \A a \in Pkgs, b \in Pkgs :
                  Cycle(a, b) => /\ Cardinality(NodesNamed(out, a)) = 1
                                 /\ Cardinality(NodesNamed(out, b)) = 1)

\* C1 witness: a finished run that met a cycle between two packages.
C1_Witness == Done /\ \E a \in Pkgs : \E b \in Pkgs \ {a} : Cycle(a, b)

\* The root out[i] declares q at the specifier that strips to s.
RootDeclares(i, q, s) == Declares(out[i].Name, out[i].Req, q, s)

\* C4: when two top-level requirements both declare the same (name,
\* specifier) sub-dependency, the forest holds exactly one node for it, a
\* child of the root resolved first and no child of the root resolved second.
C4_SharedIsChildOfFirst ==
  Done => \A i \in 1..Len(out), j \in 1..Len(out), q \in Pkgs, s \in Reqs :
            (i < j /\ RootDeclares(i, q, s) /\ RootDeclares(j, q, s)) =>
              /\ Cardinality(NodesFor(out, q, s)) = 1
              /\ \E c \in 1..Len(out[i].Transitive) :
                   out[i].Transitive[c].Name = q /\ out[i].Transitive[c].Req = s
              /\ \A c \in 1..Len(out[j].Transitive) :
                   ~(out[j].Transitive[c].Name = q /\ out[j].Transitive[c].Req = s)

\* C4 amended: the forest holds at most one node for the shared key, exactly
\* one when the registry document of the sub-dependency decodes; the node
\* lies where the key was reached first, in the tree of the root resolved
\* first or before it, and nowhere in a later tree.
C4_SharedOnceNotUnderSecond ==
  Done => \A i \in 1..Len(out), j \in 1..Len(out), q \in Pkgs, s \in Reqs :
            (i < j /\ RootDeclares(i, q, s) /\ RootDeclares(j, q, s)) =>
              /\ Cardinality(NodesFor(out, q, s)) <= 1
              /\ Decoded(q) => Cardinality(NodesFor(out, q, s)) = 1
              /\ NodesFor(SubSeq(out, i + 1, Len(out)), q, s) = {}

\* C4 witness: two roots declare the same key and its node is in the forest.
C4_Witness ==
  Done /\ \E i \in 1..Len(out), j \in 1..Len(out), q \in Pkgs, s \in Reqs :
            /\ i < j /\ RootDeclares(i, q, s) /\ RootDeclares(j, q, s)
            /\ q \notin {out[i].Name, out[j].Name}
            /\ Cardinality(NodesFor(out, q, s)) = 1

\* The node was requested at a version the index lacks, while
\* dist-tags.latest names a version of the index.
MissedVersion(nd) ==
  /\ Decoded(nd.Name)
  /\ registry[nd.Name].hasVersions /\ registry[nd.Name].tags
  /\ nd.Req # Empty
  /\ nd.Req \notin DOMAIN registry[nd.Name].versions
  /\ registry[nd.Name].latest \in DOMAIN registry[nd.Name].versions
LatestData(nd) == registry[nd.Name].versions[registry[nd.Name].latest]
\* The license is the one of the latest version's metadata, or what the page
\* scrape made of an Unknown one.
LicenseOfLatest(nd) ==
  IF findNpmLicense(LatestData(nd)) = Unknown
  THEN nd.License \in {Unknown} \cup (PageResults \ {Empty})
  ELSE nd.License = findNpmLicense(LatestData(nd))
\* Every dependency the latest version declares was resolved.
DepsOfLatestResolved(nd) ==
  \A d \in DOMAIN LatestData(nd).deps :
    NodeKey(d, removeCaretTilde(LatestData(nd).deps[d])) \in visited

\* C6: in the fallback snapshot, a node requested at a version missing from
\* the index while dist-tags.latest is in it has the latest version as its
\* Version, and its License and children come from the latest version's
\* metadata.
C6_FallbackUsesLatest ==
  \A i \in 1..Len(AllNodes(out)) :
    LET nd == AllNodes(out)[i] IN
    MissedVersion(nd) =>
      /\ nd.Version = registry[nd.Name].latest
      /\ LicenseOfLatest(nd)
      /\ DepsOfLatestResolved(nd)
      /\ \A c \in 1..Len(nd.Transitive) :
           /\ nd.Transitive[c].Name \in DOMAIN LatestData(nd).deps
           /\ nd.Transitive[c].Req =
                removeCaretTilde(LatestData(nd).deps[nd.Transitive[c].Name])

\* C6 witness: a root requested at a missing version came back with a child.
C6_Witness ==
  \E i \in 1..Len(out) : MissedVersion(out[i]) /\ out[i].Transitive # <<>>

\* C7: resolveNodeDependency of checker.go gives a node requested at a
\* version missing from the index the latest version's license and resolves
\* the latest version's dependencies.
C7_MissingVersionFallsBack ==
  \A i \in 1..Len(AllNodes(out)) :
    MissedVersion(AllNodes(out)[i]) =>
      LicenseOfLatest(AllNodes(out)[i]) /\ DepsOfLatestResolved(AllNodes(out)[i])

\* C9: a package whose registry response has a non-2xx status has no node in
\* the forest.
C9_NonOkStatusOmitted ==
  \A p \in DOMAIN registry :
    (~registry[p].err /\ registry[p].status \notin 200..299) =>
      NodesNamed(out, p) = {}

\* C5: no node has a descendant with its own name and resolved version.
C5_NoSelfDescendant ==
  \A i \in 1..Len(AllNodes(out)) :
    LET nd == AllNodes(out)[i] IN
    \A d \in 1..Len(AllNodes(nd.Transitive)) :
      ~(/\ AllNodes(nd.Transitive)[d].Name = nd.Name
        /\ AllNodes(nd.Transitive)[d].Version = nd.Version
        /\ AllNodes(nd.Transitive)[d].Language = nd.Language)

\* The fetch of the key failed: no response, or a body that does not decode.
FetchFailed(p, s) == NodeKey(p, s) \in visited /\ Fetched(p) /\ ~Decoded(p)

\* C10: a failed dependency is the only thing a run loses.
\* parseNodeDependencies returns no error for a readable manifest; every
\* manifest entry and every dependency declared by a produced node was
\* resolved; and every key whose document decoded has exactly one node, also
\* when the resolution of one of its dependencies or siblings failed.
C10_FailureOmitsOnlyItself ==
  (Done /\ manifest.kind = "ok") =>
    /\ ~retErr
    /\ \A n \in DOMAIN manifest.deps :
         NodeKey(n, removeCaretTilde(manifest.deps[n])) \in visited
    /\ \A p \in Pkgs, s \in Reqs :
         (NodeKey(p, s) \in visited /\ Decoded(p)) =>
           /\ Cardinality(NodesFor(out, p, s)) = 1
           /\ \A d \in DOMAIN UsedDeps(p, s) :
                NodeKey(d, removeCaretTilde(UsedDeps(p, s)[d])) \in visited

\* C10 witness: a dependency of a produced node failed, and a sibling of the
\* failed dependency is a node of the forest.
C10_Witness ==
  Done /\ \E i \in 1..Len(AllNodes(out)) :
    LET nd == AllNodes(out)[i]
        deps == UsedDeps(nd.Name, nd.Req)
    IN \E d \in DOMAIN deps, e \in DOMAIN deps :
         /\ d # e
         /\ FetchFailed(d, removeCaretTilde(deps[d]))
         /\ \E c \in 1..Len(nd.Transitive) : nd.Transitive[c].Name = e

\* The worker of requirement w got an error from resolvePythonDependency.
PyFailed(w) == wres[w].kind = "err"
PyReturned == pcM = "returned"

\* C2: when the resolution of a top-level Python requirement fails,
\* parsePythonDependencies still returns, with a node for every requirement
\* whose resolution succeeded, in every interleaving: as long as it has not
\* returned some goroutine can take a step, and once it has returned the node
\* of every successful worker is in the result.
C2_ReturnsDespiteFailure ==
  (\E w \in 1..MaxReqs : PyFailed(w)) =>
    /\ PyReturned \/ ENABLED PyNext
    /\ PyReturned =>
         \A w \in 1..MaxReqs :
           wres[w].kind = "node" => \E i \in 1..Len(results) : results[i] = wres[w].node

\* C3: the tasks of one run share one visited set, so each (name, specifier)
\* key is expanded by at most one task: no key is marked by two workers.
C3_KeyExpandedByOneTask ==
  \A w1 \in 1..MaxReqs : \A w2 \in 1..MaxReqs :
    w1 # w2 => wvisited[w1] \cap wvisited[w2] = {}

\* C8: every Python node's Version is the version whose metadata supplied its
\* License: a node whose license is info.license carries info.version.
C8_VersionIsLicenseSource ==
  \A i \in 1..Len(results) :
    LET nd == results[i]
        doc == pypi[nd.Name]
    IN doc.license # Empty /\ nd.License = doc.license => nd.Version = doc.version

\* The license inference of the snapshot with findNpmLicense and the page
\* scrape has returned its node.
LicDone(v) == licPc = "done" /\ licIn.variant = v

\* C11: every node a resolver returns has Copyleft = isCopyleft(License),
\* also when the page scrape replaced an Unknown license.
C11_CopyleftMatchesLicense ==
  /\ licPc = "done" => licNode.Copyleft = isCopyleft(licNode.License)
  /\ \A i \in 1..Len(AllNodes(out)) :
       AllNodes(out)[i].Copyleft = isCopyleft(AllNodes(out)[i].License)
  /\ \A i \in 1..Len(results) : results[i].Copyleft = isCopyleft(results[i].License)

\* C11 witness: the page scrape turned an Unknown license into a copyleft
\* one and the node was returned.
C11_Witness ==
  /\ LicDone("checker") /\ pageFetched
  /\ StructuredLicense(licIn) = Unknown
  /\ licNode.License = LGPL /\ licNode.Copyleft

\* The non-empty strings the structured strategy can take from a version's
\* metadata, in the order it looks at them: license, license.type,
\* license.name, licenses[0].type, licenses[0].name.
StructuredTexts(vd) ==
  LET fieldsOf(o) == IF o.t = "object" THEN <<o.type, o.name>> ELSE <<>>
  IN SelectSeq(<<vd.license>> \o fieldsOf(vd.license)
               \o (IF Len(vd.licenses) > 0 THEN fieldsOf(vd.licenses[1]) ELSE <<>>),
               IsText)
StructuredCandidates(vd) ==
  {StructuredTexts(vd)[i].v : i \in 1..Len(StructuredTexts(vd))}
\* The structured strategy's license when it found one.
FirstStructured(vd) == StructuredTexts(vd)[1].v
\* The structured strategy found a non-empty license for the version used.
FoundStructured(in) == in.found /\ StructuredCandidates(in.verData) # {}

\* C12: a Node node has License "Unknown" if and only if the structured
\* strategy found no non-empty license and the page scrape returned nothing.
C12_UnknownIffAllFailed ==
  LicDone("checker") =>
    (licNode.License = Unknown <=> (~FoundStructured(licIn) /\ licIn.page = Empty))

\* C12 amended: License is "Unknown" if and only if the page scrape returned
\* nothing and the structured strategy found no non-empty license or the
\* license it selected is the text "Unknown" itself.
C12_UnknownIffNothingBetter ==
  LicDone("checker") =>
    (licNode.License = Unknown <=>
       /\ licIn.page = Empty
       /\ \/ ~FoundStructured(licIn)
          \/ FirstStructured(licIn.verData) = Unknown)

\* C12 witness: the only license data is in the "licenses" array, the page
\* gives nothing, and the node carries the array's license.
C12_Witness ==
  /\ LicDone("checker") /\ licIn.found /\ licIn.page = Empty
  /\ licIn.verData.license = LicAbsent
  /\ StructuredCandidates(licIn.verData) = {ISC}
  /\ licNode.License = ISC

\* C13: every node of resolveNodeDependency has a non-empty License, whatever
\* the shape or value of the registry's license field.
C13_LicenseNonEmpty ==
  (licPc = "done" /\ licIn.variant \in {"checker", "inline"}) =>
    licNode.License # Empty

\* C14: isCopyleft(L) holds exactly when the upper-cased L contains a
\* copyleft keyword; the letter case of L does not matter; "Unknown" is not
\* copyleft.
C14_CopyleftByKeyword ==
  /\ ~isCopyleft(Unknown)
  /\ licPc = "done" =>
       /\ licNode.Copyleft =
            (\E k \in 1..Len(CopyleftKeywords) :
               Contains(ToUpper(licNode.License), CopyleftKeywords[k]))
       /\ isCopyleft(ToLower(licNode.License)) = licNode.Copyleft
       /\ isCopyleft(ToUpper(licNode.License)) = licNode.Copyleft

\* C14 witness: a copyleft license written in mixed case was classified.
C14_Witness == licPc = "done" /\ licNode.License = MixedLgpl /\ licNode.Copyleft

\* C20: the page is fetched only after the structured step left "Unknown";
\* when the metadata of the version used supplies a non-empty license, no
\* page is fetched and the license is the structured one.
C20_ScrapeOnlyWhenNoLicense ==
  /\ pageFetched => licPc \in {"return", "done"} /\ StructuredLicense(licIn) = Unknown
  /\ (LicDone("checker") /\ FoundStructured(licIn)) =>
       /\ ~pageFetched
       /\ licNode.License = FirstStructured(licIn.verData)

\* C20 amended: the page is fetched only after the structured step left
\* "Unknown", and exactly then; when the metadata supplies a non-empty license
\* that is not the text "Unknown", no page is fetched and the license is the
\* structured one.
C20_ScrapeIffUnknown ==
  /\ pageFetched => licPc \in {"return", "done"} /\ StructuredLicense(licIn) = Unknown
  /\ LicDone("checker") =>
       /\ pageFetched <=> StructuredLicense(licIn) = Unknown
       /\ (FoundStructured(licIn) /\ FirstStructured(licIn.verData) # Unknown) =>
            /\ ~pageFetched
            /\ licNode.License = FirstStructured(licIn.verData)

\* C20 witness: the metadata supplied a license, the page would have given
\* another one, and the node carries the structured license.
C20_Witness ==
  /\ LicDone("checker") /\ FoundStructured(licIn)
  /\ licIn.page # Empty /\ ~pageFetched
  /\ licNode.License = MIT


\* The lines of the file parseRequirements was given that are neither blank
\* nor a comment.
ContentLines ==
  SelectSeq(Split(prIn.raw, NewLine),
            LAMBDA ln : TrimSpace(ln) # Empty /\ ~HasPrefix(TrimSpace(ln), <<"#">>))

\* The line holds one of the two recognized separators.
HasSeparator(ln) == Contains(ln, EqSep) \/ Contains(ln, GeSep)

\* C17: parseRequirements returns exactly one requirement for every line that
\* holds a recognized separator ("==" or ">="), in input order, and logs
\* exactly the lines that hold none; blank lines and comments give neither.
C17_OnePerSeparatorLine ==
  (prPc = "done") =>
    /\ Len(prOut) = Len(SelectSeq(ContentLines, HasSeparator))
    /\ Len(prLog) = Len(SelectSeq(ContentLines, LAMBDA ln : ~HasSeparator(ln)))


RECURSIVE PathsOf(_)
\* The nodes of a forest, each named by the child indices that lead to it.
PathsOf(nds) ==
  UNION {{<<i>>} \cup {<<i>> \o q : q \in PathsOf(nds[i].Transitive)} : i \in 1..Len(nds)}

RECURSIVE NodeAt(_, _)
NodeAt(nds, path) ==
  IF Len(path) = 1 THEN nds[path[1]]
  ELSE NodeAt(nds[path[1]].Transitive, Tail(path))

\* path a comes before path b when the forest is read parents first.
Before(a, b) ==
  \E k \in 1..Len(b) :
    /\ k <= Len(a) + 1
    /\ SubSeq(a, 1, k - 1) = SubSeq(b, 1, k - 1)
    /\ IF k = Len(a) + 1 THEN TRUE ELSE a[k] < b[k]

\* The place of a node among the nodes of its forest.
Rank(nds, path) == 1 + Cardinality({q \in PathsOf(nds) : Before(q, path)})

\* The name of the immediate parent, "Direct" for a root.
ParentName(nds, path) ==
  IF Len(path) = 1 THEN Direct
  ELSE NodeAt(nds, SubSeq(path, 1, Len(path) - 1)).Name

\* The records of the forest nds start after the first "offset" records.
FlatOf(nds, offset) ==
  \A path \in PathsOf(nds) :
    LET fd == allFlat[offset + Rank(nds, path)] IN
    /\ fd.Name = NodeAt(nds, path).Name
    /\ fd.Language = NodeAt(nds, path).Language
    /\ fd.Parent = ParentName(nds, path)

Flattened == mainPc \in {"tree", "html", "exited"}

\* C15: the flattened list holds one record per node of the two forests; the
\* record of a root has Parent "Direct" and the record of any other node has
\* the Name of the node's immediate parent as its Parent.
C15_ParentIsImmediateParent ==
  Flattened =>
    /\ Len(allFlat) = Cardinality(PathsOf(nodeDeps)) + Cardinality(PathsOf(pyDeps))
    /\ FlatOf(nodeDeps, 0)
    /\ FlatOf(pyDeps, Cardinality(PathsOf(nodeDeps)))

\* A chain root a, child b, grandchild c was flattened, next to a Python root.
C15_Witness ==
  /\ Flattened
  /\ pyDeps # <<>>
  /\ allFlat[Len(allFlat)].Parent = Direct
  /\ \E path \in PathsOf(nodeDeps) :
       /\ Len(path) = 3
       /\ NodeAt(nodeDeps, <<path[1]>>).Name = PkgA
       /\ NodeAt(nodeDeps, <<path[1], path[2]>>).Name = PkgB
       /\ NodeAt(nodeDeps, path).Name = PkgC
       /\ allFlat[Rank(nodeDeps, path)].Parent = PkgB

\* The children of a JSON object of a tree document.
Children(doc) == IF doc.Transitive = JNull THEN <<>> ELSE doc.Transitive.v

RECURSIVE JPathsOf(_)
JPathsOf(docs) ==
  UNION {{<<i>>} \cup {<<i>> \o q : q \in JPathsOf(Children(docs[i]))} : i \in 1..Len(docs)}

RECURSIVE JAt(_, _)
JAt(docs, path) ==
  IF Len(path) = 1 THEN docs[path[1]]
  ELSE JAt(Children(docs[path[1]]), Tail(path))

\* doc is one object of the given name whose children are the forest nds; for
\* an empty forest it has no child, or one childless child that stands for
\* no node and has the name of no flattened record.
OneRootOver(doc, nm, nds) ==
  /\ doc.t = "object"
  /\ doc.Name = nm
  /\ IF nds # <<>>
     THEN /\ JPathsOf(Children(doc)) = PathsOf(nds)
          /\ \A path \in PathsOf(nds) :
               /\ JAt(Children(doc), path).Name = NodeAt(nds, path).Name
               /\ JAt(Children(doc), path).Language = NodeAt(nds, path).Language
     ELSE \/ Children(doc) = <<>>
          \/ /\ Len(Children(doc)) = 1
             /\ Children(Children(doc)[1]) = <<>>
             /\ \A k \in 1..Len(allFlat) : allFlat[k].Name # Children(doc)[1].Name

TreeBuilt == mainPc \in {"html", "exited"}

\* C16: each ecosystem's tree document is one synthetic root whose children are
\* the ecosystem's forest; for an empty forest the root is there with no child
\* or with one placeholder child, and no flattened record is the placeholder.
C16_OneRootPerEcosystem ==
  TreeBuilt =>
    /\ OneRootOver(njson, NodeRootName, nodeDeps)
    /\ OneRootOver(pjson, PyRootName, pyDeps)
    /\ Len(allFlat) = Cardinality(PathsOf(nodeDeps)) + Cardinality(PathsOf(pyDeps))

\* Both shapes of the empty case next to a forest of the other ecosystem: a
\* placeholder child under the Node.js root, and a root with no child.
C16_Witness ==
  /\ TreeBuilt
  /\ nodeDeps = <<>>
  /\ pyDeps # <<>>
  /\ allFlat # <<>>
  /\ \/ program = "part_002" /\ Len(Children(njson)) = 1
     \/ program = "checker" /\ Children(njson) = <<>>


\* The flat records of one ecosystem.
FlatIn(lang) == SelectSeq(allFlat, LAMBDA fd : fd.Language = lang)

Exited == mainPc = "exited"

\* C18: when one ecosystem's manifest is absent or cannot be parsed, main goes
\* on until it exits; that ecosystem then has no top-level node and no flat
\* record, the flat records of the other ecosystem are those of its resolved
\* forest, and the exit status is a failure only when the report was not
\* written.
C18_MissingManifestNotFatal ==
  /\ (~Exited /\ (manifest.kind \in Missing \/ reqFile.kind \in Missing))
       => ENABLED MainNext
  /\ Exited =>
       /\ manifest.kind \in Missing => nodeDeps = <<>> /\ FlatIn("node") = <<>>
       /\ reqFile.kind \in Missing => pyDeps = <<>> /\ FlatIn("python") = <<>>
       /\ manifest.kind \notin Missing =>
            nodeDeps = out /\ FlatIn("node") = flattenNodeAll(out, Direct)
       /\ reqFile.kind \notin Missing =>
            pyDeps = results /\ FlatIn("python") = flattenPyAll(results, Direct)
       /\ exitCode = 1 <=> report = <<>>
       /\ exitCode = 0 => report.Deps = allFlat


\* The places a struct is attached at: a Transitive slice or the result slice.
ParentsOf(id) ==
  UNION {{<<pa, k>> : k \in {j \in 1..Len(heap[pa].Transitive) :
                               heap[pa].Transitive[j] = id}} : pa \in DOMAIN heap}
  \cup {<<0, k>> : k \in {j \in 1..Len(pipResults) : pipResults[j] = id}}

RECURSIVE Reaches(_, _, _)
\* The struct at b is met within n steps down from the struct at a.
Reaches(a, b, n) ==
  /\ n > 0
  /\ \E k \in 1..Len(heap[a].Transitive) :
       heap[a].Transitive[k] = b \/ Reaches(heap[a].Transitive[k], b, n - 1)

\* C19: every struct buildPyDepTree produced is attached at one place at
\* most, no struct is met again below itself, and flattenPyAll ends with at
\* most one record per struct.
C19_ForestWithoutSharing ==
  /\ \A id \in DOMAIN heap : Cardinality(ParentsOf(id)) <= 1
  /\ \A id \in DOMAIN heap : ~Reaches(id, id, Cardinality(DOMAIN heap))
  /\ Len(flOut) <= Cardinality(DOMAIN heap)


\* The structured lookup of checker.go's first resolveNodeDependency has just
\* been made on the metadata of an existing version.
Looked == licPc = "fallback" /\ licIn.found

\* C21: findNpmLicense returns the first non-empty string among license,
\* license.type, license.name, licenses[0].type and licenses[0].name, in this
\* order, and "Unknown" when there is none.
C21_FirstShapeWins ==
  Looked =>
    licVal = IF StructuredTexts(licIn.verData) = <<>> THEN Unknown
             ELSE FirstStructured(licIn.verData)

\* C21 witness: a license object with an empty type and the name ISC stands
\* before a licenses array whose first element has the type GPL-3, and the
\* name of the object was returned.
C21_Witness ==
  /\ Looked
  /\ licIn.verData.license = LicObject(LicString(Empty), LicString(ISC))
  /\ licIn.verData.licenses = <<LicObject(LicString(GPL3), LicAbsent)>>
  /\ licVal = ISC


\* A specifier that begins with a range marker.
Marked(ver) == ver # Empty /\ ver[1] \in {"^", "~"}

\* The version part of a visited key.
KeyVersion(key) ==
  LET at == CHOOSE i \in 1..Len(key) : key[i] = "@" IN SubSeq(key, at + 1, Len(key))

\* C22: a resolveNodeDependency call is given the specifier without its leading
\* '^' and '~' markers: no visited key and no version looked up in the
\* versions index begins with a marker.
C22_SpecifierStripped ==
  /\ \A key \in visited : ~Marked(KeyVersion(key))
  /\ \A i \in 1..Len(stack) : ~Marked(stack[i].req) /\ ~Marked(stack[i].ver)


\* The page of the given scrape came and the scrape has returned.
Scraped(v) == scPc = "done" /\ scIn.variant = v /\ scIn.fetched

\* The lines of the page that hold the word "license", in any letter case.
Mentions(lines) == {i \in 1..Len(lines) : Contains(ToLower(lines[i]), LicenseWord)}

\* The line of the first occurrence and the Window lines after it.
FirstWindow(lines) ==
  LET first == CHOOSE i \in Mentions(lines) : \A k \in Mentions(lines) : i <= k
  IN {j \in first..(first + Window) : j <= Len(lines)}

\* C23: fallbackNpmLicenseMultiLine returns a token only when one stands on the
\* line of the first occurrence of "license" or on one of the ten lines after
\* it; when that window holds no known token the result is empty.
C23_FirstWindowOnly ==
  Scraped("multiline") /\ scOut # Empty =>
    /\ Mentions(scIn.lines) # {}
    /\ \E j \in FirstWindow(scIn.lines) : parseLicenseLine(scIn.lines[j]) # Empty

\* Where sub first begins in s, 0 when s does not hold it.
FirstAt(s, sub) ==
  LET at == {i \in 1..(Len(s) - Len(sub) + 1) : SubSeq(s, i, i + Len(sub) - 1) = sub}
  IN IF at = {} THEN 0 ELSE CHOOSE i \in at : \A k \in at : i <= k

\* The keyword of the list that begins first in the upper-cased line.
FirstInText(known, line) ==
  LET up == ToUpper(line)
      hits == {k \in 1..Len(known) : FirstAt(up, known[k]) > 0}
  IN known[CHOOSE k \in hits :
             \A h \in hits : FirstAt(up, known[k]) <= FirstAt(up, known[h])]

\* C24: when the text grep hands to fallbackNpmLicenseByCurl holds several
\* known tokens, the scrape returns the one that occurs first in the text,
\* not the one that stands first in the keyword list.
C24_FirstInScanOrder ==
  Scraped("curl") /\ scOut # Empty =>
    LET grepOut == GrepLicense(scIn.lines)
        first == CHOOSE k \in 1..Len(grepOut) :
                   /\ parseLicenseFromLine(grepOut[k]) # Empty
                   /\ \A h \in 1..(k - 1) : parseLicenseFromLine(grepOut[h]) = Empty
    IN scOut = FirstInText(KnownLicenses, grepOut[first])


\* path a leads to a proper ancestor of the node of path b.
Above(a, b) == Len(a) < Len(b) /\ SubSeq(b, 1, Len(a)) = a

RECURSIVE Size(_)
\* The number of nodes of a forest.
Size(nds) == IF nds = <<>> THEN 0 ELSE 1 + Size(Head(nds).Transitive) + Size(Tail(nds))

RECURSIVE Place(_, _)
\* The place of a node in its forest when every subtree is kept together and
\* begins with its root: behind the subtrees of the earlier siblings of each
\* of its ancestors and of itself, and behind its ancestors.
Place(nds, path) ==
  Size(SubSeq(nds, 1, path[1] - 1)) + 1
  + (IF Len(path) = 1 THEN 0 ELSE Place(nds[path[1]].Transitive, Tail(path)))

\* Record offset + Place of the flattened list is the node, for every node of
\* the forest nds: one record each, every node before its descendants.
OneRecordEach(nds, offset) ==
  LET place == [a \in PathsOf(nds) |-> Place(nds, a)] IN
  /\ \A a \in DOMAIN place :
       LET fd == allFlat[offset + place[a]]
       IN fd = FlatDep(NodeAt(nds, a), fd.Parent)
  /\ \A a, b \in DOMAIN place :
       /\ a # b => place[a] # place[b]
       /\ Above(a, b) => place[a] < place[b]

\* C25: flattenNodeAll and flattenPyAll emit exactly one record per node of
\* the forest, the record of a node before the records of all its
\* descendants, so the output is as long as the forest has nodes.
C25_PreOrderOnePerNode ==
  Flattened =>
    /\ Len(allFlat) = Size(nodeDeps) + Size(pyDeps)
    /\ OneRecordEach(nodeDeps, 0)
    /\ OneRecordEach(pyDeps, Size(nodeDeps))

\* C25 witness: a Python root a with the children b and c was flattened
\* behind one Node root, into the records a, b, c.
C25_Witness ==
  /\ Flattened
  /\ Len(nodeDeps) = 1 /\ Len(nodeDeps[1].Transitive) = 0
  /\ Len(pyDeps) = 1 /\ Len(pyDeps[1].Transitive) = 2
  /\ <<allFlat[2].Name, allFlat[3].Name, allFlat[4].Name>> = <<PkgA, PkgB, PkgC>>
  /\ allFlat[2].Language = "python"


\* The workers parsePythonDependencies has started.
Started == {w \in 1..MaxReqs : wpc[w] # "none"}

\* The workers whose call gave a node, which they send on depChan.
Senders == {w \in Started : wres[w].kind = "node"}

\* main is at the flattening or behind it.
FlattenReached == mainPc \in {"flatten", "tree", "html", "exited"}

\* C26: when parsePythonDependencies has returned, every worker it started
\* has finished and the node of every worker that had one is in the returned
\* slice; main does not reach the flattening while a call of
\* resolveNodeDependency or resolvePythonDependency is still running.
C26_ReturnAfterAllWorkers ==
  /\ pcM = "returned" =>
       /\ \A w \in Started : wpc[w] = "done"
       /\ \A w \in Senders : \E k \in 1..Len(results) : results[k] = wres[w].node
       /\ Len(results) = Cardinality(Senders)
  /\ FlattenReached =>
       /\ pcN = "done" /\ stack = <<>>
       /\ pcM = "returned"
       /\ \A w \in Started : wpc[w] = "done"
       /\ pyDeps = IF pyErr THEN <<>> ELSE results

\* C26 witness: two workers were started, both sent a node, and main is at the
\* flattening with the two nodes.
C26_Witness ==
  /\ mainPc = "flatten"
  /\ Cardinality(Senders) = 2
  /\ Len(pyDeps) = 2


\* The document of key was requested and the request or its decoding failed.
FailedKey(key) ==
  \E p \in Pkgs : \E s \in Reqs :
    key = NodeKey(p, s) /\ BagIn(key, fetches) /\ ~Decoded(p)

\* C27: within one run of parseNodeDependencies the registry document of a
\* (name, specifier) key is requested once at most; a key whose document was
\* requested is marked visited and stays marked; a key whose request failed
\* has no node in the forest.
C27_OneFetchPerKey ==
  /\ \A key \in BagToSet(fetches) : CopiesIn(key, fetches) = 1 /\ key \in visited
  /\ \A p \in Pkgs, s \in Reqs :
       FailedKey(NodeKey(p, s)) => NodesFor(out, p, s) = {}

\* C27 witness: the run is over, the request for a key failed, and two
\* produced nodes declare that key.
C27_Witness ==
  Done /\ \E p \in Pkgs, s \in Reqs :
    /\ FailedKey(NodeKey(p, s))
    /\ \E i, j \in 1..Len(AllNodes(out)) :
         /\ i # j
         /\ \E d \in DOMAIN UsedDeps(AllNodes(out)[i].Name, AllNodes(out)[i].Req) :
              d = p /\ removeCaretTilde(UsedDeps(AllNodes(out)[i].Name, AllNodes(out)[i].Req)[d]) = s
         /\ \E d \in DOMAIN UsedDeps(AllNodes(out)[j].Name, AllNodes(out)[j].Req) :
              d = p /\ removeCaretTilde(UsedDeps(AllNodes(out)[j].Name, AllNodes(out)[j].Req)[d]) = s


\* The requirements parsePythonDependencies starts a worker for.
Workers == 1..Len(reqFile.reqs)

\* C28: no worker sends on depChan or errChan after the channel was closed.
\* Each channel is closed once, by the closer goroutine, depChan before
\* errChan, and when it is closed every worker was started and has called
\* Done.
C28_NoSendAfterClose ==
  /\ \A w \in 1..MaxReqs : wpc[w] # "panic"
  /\ depClosed <=> pcC \in {"closeErr", "done"}
  /\ errClosed <=> pcC = "done"
  /\ depClosed => wg = 0 /\ \A w \in Workers : wpc[w] = "done"

\* C28 witness: both channels are closed after two workers sent their nodes.
C28_Witness ==
  /\ depClosed /\ errClosed
  /\ Len(results) = 2
  /\ Cardinality(Workers) = 2


\* The workers whose call of resolvePythonDependency was given its map.
Mapped == {w \in 1..MaxReqs : wmap[w] # 0}

\* C29: no two worker goroutines of parsePythonDependencies are given the
\* same visited map: the maps of two workers have different addresses, and
\* the map of a worker holds no key but the one of its own requirement.
C29_OwnVisitedMap ==
  /\ \A w1 \in Mapped, w2 \in Mapped : w1 # w2 => wmap[w1] # wmap[w2]
  /\ \A w \in Mapped :
       wvisited[w] \subseteq {NodeKey(reqFile.reqs[w].name, reqFile.reqs[w].version)}

\* C29 witness: two workers for the same requirement have both marked its
\* key, each in its map.
C29_Witness ==
  /\ Mapped = {1, 2}
  /\ reqFile.reqs[1] = reqFile.reqs[2]
  /\ wvisited[1] # {} /\ wvisited[1] = wvisited[2]


\* The (name, stripped specifier) pairs the manifest asks for.
ManifestKeys == {<<n, removeCaretTilde(manifest.deps[n])>> : n \in DOMAIN manifest.deps}

\* The call for the pair k builds a node: its document decoded.
HasNode(k) == Decoded(k[1]) /\ Resolve(k[1], k[2], registry[k[1]], {}).kind = "frame"

\* The pairs the document of the pair k asks for, none when it did not decode.
KeysBelow(k) ==
  IF HasNode(k)
  THEN {<<d, removeCaretTilde(UsedDeps(k[1], k[2])[d])>> : d \in DOMAIN UsedDeps(k[1], k[2])}
  ELSE {}

RECURSIVE Closure(_, _)
\* The pairs that can be reached from the pairs ks in n rounds: no order of
\* the maps enters it.
Closure(ks, n) ==
  IF n = 0 THEN ks
  ELSE Closure(ks \cup UNION {KeysBelow(k) : k \in ks}, n - 1)

\* The (Name, Version, License) of the node of a pair whose document decoded:
\* what the registry and the page of the package say about it.
TripleOf(k) ==
  LET f == Resolve(k[1], k[2], registry[k[1]], {}).frame
  IN <<f.pkg, f.ver,
       IF f.license = Unknown /\ k[1] \in DOMAIN pages /\ pages[k[1]] # Empty
       THEN pages[k[1]] ELSE f.license>>

\* The triples of the manifest, the registry and the pages.
Triples ==
  {TripleOf(k) : k \in {j \in Closure(ManifestKeys, Cardinality(Pkgs \X Reqs)) : HasNode(j)}}

\* The triples of the flattened Node output.
FlatTriples ==
  LET flat == flattenNodeAll(out, Direct)
  IN {<<flat[i].Name, flat[i].Version, flat[i].License>> : i \in 1..Len(flat)}

\* C30: the set of (Name, Version, License) triples of the flattened Node
\* output is the set the manifest, the registry and the pages determine,
\* whatever order the range loops took the manifest's and the packages'
\* dependency maps in.
C30_TriplesIgnoreMapOrder ==
  (Done /\ manifest.kind = "ok") => FlatTriples = Triples

\* C30 witness: a finished run in which two roots declare the same
\* sub-dependency, whose node is below the first of them, with three
\* different triples in the output.
C30_Witness ==
  /\ Done
  /\ Cardinality(FlatTriples) >= 3
  /\ \E i, j \in 1..Len(out), q \in Pkgs, r \in Reqs :
       /\ i < j /\ RootDeclares(i, q, r) /\ RootDeclares(j, q, r)
       /\ \E c \in 1..Len(AllNodes(out[i].Transitive)) :
            AllNodes(out[i].Transitive)[c].Name = q /\ AllNodes(out[i].Transitive)[c].Req = r

====
